---- MODULE Spec2Model ----
(***************************************************************************)
(* StructPDF: a JSON envelope embedded in the embedded-file name tree of a *)
(* PDF document (StructPDFInjector.inject, StructPDFExtractor.extract,     *)
(* EmbeddedFileManager, PDFHandler).                                        *)
(*                                                                         *)
(* A document is the object graph that pdf-lib loads: the chain            *)
(* Catalog -> Names -> EmbeddedFiles -> Names, the flat array of           *)
(* (name, filespec) pairs, the Keywords string and the Creator.  Byte      *)
(* arrays are modelled by their framing (plain text, gzip 1F 8B, zlib      *)
(* 78 9C), their length and what they decode to; JSON text is a sequence   *)
(* of tokens produced by Stringify and read back by Parse.                 *)
(***************************************************************************)
EXTENDS Integers, Sequences, FiniteSets, TLC

(***************************************************************************)
(* Bounds of the model.                                                    *)
(***************************************************************************)
\* calls per run that change a file (inject, embedFile, removeFile, an
\* outside rewrite of the stored stream)
MaxCalls == 1
\* pairs already in the embedded-file array of a source document
MaxInitPairs == 2
\* compression layers of the stream a source document may hold under the
\* reserved name
MaxStoredLayers == 6
\* calls of the document handler in one run of HandlerSpec
MaxHandlerCalls == 2

(***************************************************************************)
(* Program constants.                                                      *)
(***************************************************************************)
EMBEDDED_FILE_NAME == "structpdf.json"
MIME_TYPE == "application/json"
GENERATOR == "@structcv/structpdf"
THRESHOLD == 1024
MAX_LAYERS == 5
DETECTION_THRESHOLD == 2
MAX_PAYLOAD_SIZE == 10 * 1024 * 1024
SUPPORTED_HASH_ALGORITHMS == <<"md5", "sha1", "sha256", "sha384", "sha512">>
HAS_STRUCTPDF == "HasStructPDF"
STRUCTPDF_VERSION == "StructPDFVersion"
STRUCTPDF_DOMAIN == "StructPDFDomain"

(***************************************************************************)
(* JSON values.  A string is a base text followed by pad filler            *)
(* characters (rnd: the filler does not compress); h is empty, or names    *)
(* the algorithm and the text a hex digest was computed from.  An object   *)
(* is the sequence of its <<key, value>> members in insertion order.       *)
(* Inst is an instance of a class (a Date), not a plain JSON value.        *)
(***************************************************************************)
JNull == [t |-> "null"]
JBool(b) == [t |-> "bool", b |-> b]
JNum(n) == [t |-> "num", n |-> n]
JStr(s) == [t |-> "str", s |-> s, pad |-> 0, rnd |-> FALSE, h |-> <<>>]
JPad(s, n, r) == [t |-> "str", s |-> s, pad |-> n, rnd |-> r, h |-> <<>>]
JArr(items) == [t |-> "arr", items |-> items]
JObj(members) == [t |-> "obj", members |-> members]
Inst == [t |-> "inst"]

\* the values of typeof-undefined options and absent fields
Undefined == [t |-> "undefined"]

\* length in characters of the texts the model uses
StrLenTab ==
  [s \in {"", "a", "Ada", "name", "test", "content", "specVersion", "2.1.0",
          "data", "domain", "version", "schema", "payload", "metadata",
          "createdAt", "generator", "compressed", "integrity", "algorithm",
          "hash", "GENERIC", "RESUME", "unknown", "sha256", "md5", "crc32",
          "sha224",
          "https://example.com/s.json", "not-a-url",
          "http://example.com/schema.json", "http://localhost:3000/schema.json",
          "https://example.com/localhost.json",
          "@structcv/structpdf", "T1", "T2", "T3", "T4", "evil"} |->
     CASE s = "" -> 0
       [] s = "a" -> 1
       [] s = "Ada" -> 3
       [] s \in {"name", "test", "data", "hash", "evil"} -> 4
       [] s = "2.1.0" -> 5
       [] s \in {"domain", "schema", "sha256", "sha224", "RESUME"} -> 6
       [] s \in {"content", "version", "payload", "GENERIC", "unknown"} -> 7
       [] s = "metadata" -> 8
       [] s \in {"createdAt", "generator", "integrity", "algorithm", "not-a-url"} -> 9
       [] s = "compressed" -> 10
       [] s = "specVersion" -> 11
       [] s = "@structcv/structpdf" -> 19
       [] s \in {"T1", "T2", "T3", "T4"} -> 24
       [] s = "https://example.com/s.json" -> 26
       [] s = "http://example.com/schema.json" -> 30
       [] s = "http://localhost:3000/schema.json" -> 33
       [] s = "https://example.com/localhost.json" -> 34
       [] s = "md5" -> 3
       [] s = "crc32" -> 5]

StrLen(s) == StrLenTab[s]

\* Date.toISOString() of the n-th instant of the run, 24 characters
toISOString(n) == <<"T1", "T2", "T3", "T4">>[n]

RECURSIVE SumSeq(_)
SumSeq(s) == IF s = <<>> THEN 0 ELSE Head(s) + SumSeq(Tail(s))

RECURSIVE Digits(_)
Digits(n) == IF n < 10 THEN 1 ELSE 1 + Digits(n \div 10)

(***************************************************************************)
(* JSONValidator.validateJSON: null, strings, numbers and booleans pass,   *)
(* arrays and plain objects pass when every element passes, instances of   *)
(* classes and undefined do not.                                           *)
(***************************************************************************)
RECURSIVE validateJSON(_)
validateJSON(data) ==
  CASE data.t = "null" -> TRUE
    [] data.t \in {"str", "num", "bool"} -> TRUE
    [] data.t = "arr" ->
         \A i \in 1..Len(data.items) : validateJSON(data.items[i])
    [] data.t = "obj" ->
         \A i \in 1..Len(data.members) : validateJSON(data.members[i][2])
    [] OTHER -> FALSE

(***************************************************************************)
(* JSON.stringify: the token sequence of a value.  The same tokens are     *)
(* written with or without indentation; PrettyLen is the length of the     *)
(* text JSON.stringify(v, null, 2) writes.                                 *)
(***************************************************************************)
Punct(c) == [c |-> c, k |-> "p"]
StrTok(s, pad, rnd, h) == [s |-> s, pad |-> pad, rnd |-> rnd, h |-> h, k |-> "str"]

RECURSIVE Stringify(_)
RECURSIVE StringifyItems(_, _)
RECURSIVE StringifyMembers(_, _)
Stringify(v) ==
  CASE v.t = "null" -> <<[k |-> "lit", w |-> "null"]>>
    [] v.t = "bool" -> <<[k |-> "lit", w |-> IF v.b THEN "true" ELSE "false"]>>
    [] v.t = "num" -> <<[n |-> v.n, k |-> "num"]>>
    [] v.t = "str" -> <<StrTok(v.s, v.pad, v.rnd, v.h)>>
    [] v.t = "arr" -> <<Punct("[")>> \o StringifyItems(v.items, 1) \o <<Punct("]")>>
    [] v.t = "obj" -> <<Punct("{")>> \o StringifyMembers(v.members, 1) \o <<Punct("}")>>
    [] OTHER -> <<StrTok("T1", 0, FALSE, <<>>)>>
StringifyItems(items, i) ==
  IF i > Len(items) THEN <<>>
  ELSE (IF i > 1 THEN <<Punct(",")>> ELSE <<>>)
       \o Stringify(items[i]) \o StringifyItems(items, i + 1)
StringifyMembers(ms, i) ==
  IF i > Len(ms) THEN <<>>
  ELSE (IF i > 1 THEN <<Punct(",")>> ELSE <<>>)
       \o <<StrTok(ms[i][1], 0, FALSE, <<>>), Punct(":")>>
       \o Stringify(ms[i][2]) \o StringifyMembers(ms, i + 1)

RECURSIVE PrettyLen(_, _)
PrettyLen(v, d) ==
  CASE v.t = "null" -> 4
    [] v.t = "bool" -> IF v.b THEN 4 ELSE 5
    [] v.t = "num" -> Digits(v.n)
    [] v.t = "str" -> StrLen(v.s) + v.pad + 2
    [] v.t = "arr" ->
         IF v.items = <<>> THEN 2
         ELSE 2 + SumSeq([i \in 1..Len(v.items) |->
                            2 * (d + 1) + PrettyLen(v.items[i], d + 1)])
                + 2 * (Len(v.items) - 1) + 1 + 2 * d + 1
    [] v.t = "obj" ->
         IF v.members = <<>> THEN 2
         ELSE 2 + SumSeq([i \in 1..Len(v.members) |->
                            2 * (d + 1) + StrLen(v.members[i][1]) + 4
                            + PrettyLen(v.members[i][2], d + 1)])
                + 2 * (Len(v.members) - 1) + 1 + 2 * d + 1
    [] OTHER -> 26

(***************************************************************************)
(* JSON.parse: recursive descent over the tokens.  The result is           *)
(* [ok, val, next]; ok is FALSE where JSON.parse throws a SyntaxError.     *)
(***************************************************************************)
ParseFail == [ok |-> FALSE, val |-> JNull, next |-> 0]
ParseOk(v, n) == [ok |-> TRUE, val |-> v, next |-> n]
IsPunct(toks, i, c) == i <= Len(toks) /\ toks[i].k = "p" /\ toks[i].c = c

RECURSIVE ParseValue(_, _)
RECURSIVE ParseItems(_, _, _)
RECURSIVE ParseMembers(_, _, _)
ParseValue(toks, i) ==
  IF i > Len(toks) THEN ParseFail
  ELSE LET tk == toks[i] IN
    CASE tk.k = "lit" ->
           ParseOk(IF tk.w = "null" THEN JNull ELSE JBool(tk.w = "true"), i + 1)
      [] tk.k = "num" -> ParseOk(JNum(tk.n), i + 1)
      [] tk.k = "str" ->
           ParseOk([t |-> "str", s |-> tk.s, pad |-> tk.pad, rnd |-> tk.rnd,
                    h |-> tk.h], i + 1)
      [] tk.k = "p" /\ tk.c = "[" ->
           IF IsPunct(toks, i + 1, "]") THEN ParseOk(JArr(<<>>), i + 2)
           ELSE ParseItems(toks, i + 1, <<>>)
      [] tk.k = "p" /\ tk.c = "{" ->
           IF IsPunct(toks, i + 1, "}") THEN ParseOk(JObj(<<>>), i + 2)
           ELSE ParseMembers(toks, i + 1, <<>>)
      [] OTHER -> ParseFail
ParseItems(toks, i, acc) ==
  LET r == ParseValue(toks, i) IN
    IF ~r.ok THEN ParseFail
    ELSE IF IsPunct(toks, r.next, ",")
           THEN ParseItems(toks, r.next + 1, Append(acc, r.val))
         ELSE IF IsPunct(toks, r.next, "]")
           THEN ParseOk(JArr(Append(acc, r.val)), r.next + 1)
         ELSE ParseFail
ParseMembers(toks, i, acc) ==
  IF ~(i <= Len(toks) /\ toks[i].k = "str" /\ IsPunct(toks, i + 1, ":"))
    THEN ParseFail
  ELSE LET r == ParseValue(toks, i + 2) IN
    IF ~r.ok THEN ParseFail
    ELSE IF IsPunct(toks, r.next, ",")
           THEN ParseMembers(toks, r.next + 1, Append(acc, <<toks[i].s, r.val>>))
         ELSE IF IsPunct(toks, r.next, "}")
           THEN ParseOk(JObj(Append(acc, <<toks[i].s, r.val>>)), r.next + 1)
         ELSE ParseFail

\* JSON.parse(text): the whole text must be one value
Parse(toks) ==
  LET r == ParseValue(toks, 1) IN
    IF r.ok /\ r.next = Len(toks) + 1 THEN r ELSE ParseFail

\* obj.key of a parsed value: Undefined when the key is absent
HasKey(v, key) ==
  v.t = "obj" /\ \E i \in 1..Len(v.members) : v.members[i][1] = key
Get(v, key) ==
  IF HasKey(v, key)
    THEN LET i == CHOOSE j \in 1..Len(v.members) :
                    /\ v.members[j][1] = key
                    /\ \A l \in (j + 1)..Len(v.members) : v.members[l][1] # key
         IN v.members[i][2]
  ELSE Undefined

(***************************************************************************)
(* Byte arrays.  text: UTF-8 text holding JSON tokens; gz: a gzip member   *)
(* (first bytes 1F 8B); zl: a zlib stream (first bytes 78 9C); raw: bytes  *)
(* that are neither.  ok = FALSE is a stream whose body is corrupt.        *)
(***************************************************************************)
Text(toks, len) == [k |-> "text", toks |-> toks, len |-> len]
RawBytes(len) == [k |-> "raw", len |-> len]

\* new TextEncoder().encode(JSON.stringify(v, null, 2))
Encode(v) == Text(Stringify(v), PrettyLen(v, 0))

\* size of the deflate output for a byte array: filler that repeats packs
\* to a thousandth, random filler and already packed bytes do not shrink
DeflatedLen(data) ==
  IF data.k = "text"
    THEN SumSeq([i \in 1..Len(data.toks) |->
                   LET tk == data.toks[i] IN
                     IF tk.k = "str"
                       THEN 1 + (IF tk.rnd THEN tk.pad ELSE tk.pad \div 1000)
                     ELSE 1])
  ELSE data.len + 5

\* pako.gzip(data), the body of compress
gzip(data) ==
  [k |-> "gz", ok |-> TRUE, len |-> 18 + DeflatedLen(data), body |-> data]
\* pako.deflate(data), what pdf-lib's context.flateStream stores
deflate(data) ==
  [k |-> "zl", ok |-> TRUE, len |-> 6 + DeflatedLen(data), body |-> data]

compress(data) == gzip(data)

isGzip(data) == data.len >= 2 /\ data.k = "gz"
isZlib(data) == data.len >= 2 /\ data.k = "zl"

(***************************************************************************)
(* decompress: [ok, data, msg].  Every failure leaves as an Error whose    *)
(* message is 'Decompression failed: ' followed by the reason.             *)
(***************************************************************************)
DecompressFail(reason) ==
  [data |-> RawBytes(0), ok |-> FALSE, msg |-> <<"Decompression failed", reason>>]
\* mutation point: bytes without a known header are handed back as they are
decompressLenient(data) ==
  IF data.len < DETECTION_THRESHOLD
    THEN DecompressFail("Data too small for compression detection")
  ELSE IF isGzip(data) \/ isZlib(data)
    THEN IF data.ok THEN [data |-> data.body, ok |-> TRUE, msg |-> <<>>]
         ELSE DecompressFail("incorrect data check")
  ELSE [data |-> data, ok |-> TRUE, msg |-> <<>>]

decompress(data) ==
  IF data.len < DETECTION_THRESHOLD
    THEN DecompressFail("Data too small for compression detection")
  ELSE IF isGzip(data) \/ isZlib(data)
    THEN IF data.ok THEN [data |-> data.body, ok |-> TRUE, msg |-> <<>>]
         ELSE DecompressFail("incorrect data check")
  ELSE DecompressFail("Unknown compression format")

(***************************************************************************)
(* Documents.  chain counts the links of Catalog -> Names ->               *)
(* EmbeddedFiles -> Names that exist (3: the pair array exists); pairs is  *)
(* the pair array; a pair is a name and what its filespec slot resolves    *)
(* to:                                                                     *)
(*   ok        a filespec dictionary with EF.F referring to a stream       *)
(*   notDict   the slot does not hold a dictionary                         *)
(*   noEF      a filespec dictionary without an EF dictionary              *)
(*   noF       an EF dictionary without an F entry                         *)
(*   notStream EF.F refers to an object that is not a stream               *)
(* keywords is the Keywords string as a sequence of words (empty: none),   *)
(* creator the Creator string (empty: none).                               *)
(***************************************************************************)
Pair(name, spec) == [name |-> name, spec |-> spec]
FileSpec(data) == [data |-> data, k |-> "ok"]
Broken(kind) == [k |-> kind]

Doc(chain, pairs, keywords, creator) ==
  [chain |-> chain, pairs |-> pairs, keywords |-> keywords, creator |-> creator]

\* file contents: no file, bytes that PDFDocument.load rejects, a document
Missing == [t |-> "missing"]
Junk == [t |-> "junk"]
Pdf(doc) == [t |-> "pdf", doc |-> doc]

(***************************************************************************)
(* PDFHandler.getEmbeddedFiles: the map from name to stream contents.      *)
(* A lookup with an expected type throws when the object is missing or of  *)
(* another type; the throw leaves the loop and the outer catch returns     *)
(* the entries collected so far.                                           *)
(***************************************************************************)
RECURSIVE WalkPairs(_, _, _)
WalkPairs(pairs, i, files) ==
  IF i > Len(pairs) THEN files
  ELSE LET p == pairs[i] IN
    CASE p.spec.k \in {"notDict", "noEF"} -> files
      [] p.spec.k = "ok" ->
           WalkPairs(pairs, i + 1,
                     [n \in DOMAIN files \cup {p.name} |->
                        IF n = p.name THEN p.spec.data ELSE files[n]])
      [] OTHER -> WalkPairs(pairs, i + 1, files)

getEmbeddedFiles(doc) ==
  IF doc.chain < 3 THEN <<>> ELSE WalkPairs(doc.pairs, 1, <<>>)

\* PDFHandler.hasStructPDFData
hasStructPDFData(doc) == EMBEDDED_FILE_NAME \in DOMAIN getEmbeddedFiles(doc)

(***************************************************************************)
(* EmbeddedFileManager.embedFile and removeFile.                           *)
(***************************************************************************)
RECURSIVE WithoutFirst(_, _)
WithoutFirst(pairs, name) ==
  IF pairs = <<>> THEN <<>>
  ELSE IF Head(pairs).name # name
    THEN <<Head(pairs)>> \o WithoutFirst(Tail(pairs), name)
  ELSE Tail(pairs)

\* the pairs kept by the rewriting loops of embedFile and removeFile
RECURSIVE WithoutName(_, _)
WithoutName(pairs, name) ==
  IF pairs = <<>> THEN <<>>
  ELSE IF Head(pairs).name # name
    THEN <<Head(pairs)>> \o WithoutName(Tail(pairs), name)
  ELSE WithoutName(Tail(pairs), name)

\* mutation point: the new pair is appended and no old pair is dropped
embedFileKeepAll(doc, fileName, fileData) ==
  [doc EXCEPT !.chain = 3,
              !.pairs = (IF doc.chain = 3 THEN doc.pairs ELSE <<>>)
                          \o <<Pair(fileName, FileSpec(deflate(fileData)))>>]

embedFile(doc, fileName, fileData) ==
  LET fileStream == deflate(fileData)
      namesArray == IF doc.chain = 3 THEN doc.pairs ELSE <<>>
      newNamesArray == WithoutName(namesArray, fileName)
                         \o <<Pair(fileName, FileSpec(fileStream))>>
  IN [doc EXCEPT !.chain = 3, !.pairs = newNamesArray]

\* mutation point: the array is rewritten and true returned whenever the
\* array exists
removeFileAlways(doc, fileName) ==
  IF doc.chain < 3 THEN [doc |-> doc, removed |-> FALSE]
  ELSE [doc |-> [doc EXCEPT !.pairs = WithoutName(doc.pairs, fileName)],
        removed |-> TRUE]

removeFile(doc, fileName) ==
  IF doc.chain < 3 THEN [doc |-> doc, removed |-> FALSE]
  ELSE LET newNamesArray == WithoutName(doc.pairs, fileName)
           removed == \E i \in 1..Len(doc.pairs) : doc.pairs[i].name = fileName
       IN [doc |-> IF removed THEN [doc EXCEPT !.pairs = newNamesArray] ELSE doc,
           removed |-> removed]

(***************************************************************************)
(* PDFHandler.addMetadata.  getKeywords returns the Keywords string;       *)
(* spreading it into the array literal yields its characters one by one,   *)
(* and setKeywords joins the array with single spaces.  The Keywords       *)
(* string is held as the sequence of its words, each with the number d of  *)
(* times it has been spread: a word of depth d stands in the string with   *)
(* 2^d - 1 spaces between each two of its characters, and 2^(e+1) - 1      *)
(* spaces separate it from a following word of depth e.                    *)
(***************************************************************************)
Word(parts) == [w |-> parts, d |-> 0]

\* [...text].join(' '): one more space level between every two characters
SpreadJoin(text) == [i \in 1..Len(text) |-> [text[i] EXCEPT !.d = @ + 1]]

addMetadata(doc, key, value) ==
  LET creator == IF doc.creator = "" THEN GENERATOR ELSE doc.creator
      existingKeywords == doc.keywords
      newKeyword == Word(<<key, ":", value>>)
      \* [...existingKeywords, newKeyword].join(' ') or [newKeyword].join(' ')
      updatedKeywords ==
        IF existingKeywords # <<>>
          THEN Append(SpreadJoin(existingKeywords), newKeyword)
        ELSE <<newKeyword>>
  IN [doc EXCEPT !.creator = creator, !.keywords = updatedKeywords]

\* PDFHandler.addStructPDFMetadata(domain, specID, specName); '' stands for
\* an argument left out
addStructPDFMetadata(doc, domain, specID, specName) ==
  LET creator == IF doc.creator = "" THEN GENERATOR ELSE doc.creator
      existingKeywords == doc.keywords
      newKeywords ==
        <<Word(<<"StructPDF", ":", "true">>),
          Word(<<"StructPDF-Domain", ":", domain>>)>>
        \o (IF specID # "" THEN <<Word(<<"StructPDF-SpecID", ":", specID>>)>>
            ELSE <<>>)
        \o (IF specName # "" THEN <<Word(<<"StructPDF-SpecName", ":", specName>>)>>
            ELSE <<>>)
      updatedKeywords ==
        IF existingKeywords # <<>>
          THEN SpreadJoin(existingKeywords) \o newKeywords
        ELSE newKeywords
  IN [doc EXCEPT !.creator = creator, !.keywords = updatedKeywords]

\* PDFHandler.hasStructPDFMetadata: keywords.split(' ') gives a word written
\* at level 0 back as one token and a word at a higher level as its single
\* characters; the token must start with 'StructPDF:true'
hasStructPDFMetadata(doc) ==
  /\ doc.keywords # <<>>
  /\ \E i \in 1..Len(doc.keywords) :
        LET keyword == doc.keywords[i] IN
          /\ keyword.d = 0
          /\ Len(keyword.w) >= 3
          /\ keyword.w[1] = "StructPDF"
          /\ keyword.w[2] = ":"
          /\ keyword.w[3] = "true"

(***************************************************************************)
(* URLValidator.validateSchemaURL.  A URL text is described by whether     *)
(* new URL() accepts it, whether it starts with https:// and whether the   *)
(* text contains 'localhost' or '127.0.0.1' anywhere.                      *)
(***************************************************************************)
UrlInfo(url) ==
  CASE url = "https://example.com/s.json" ->
         [parses |-> TRUE, https |-> TRUE, hostLocal |-> FALSE, textLocal |-> FALSE]
    [] url = "http://example.com/schema.json" ->
         [parses |-> TRUE, https |-> FALSE, hostLocal |-> FALSE, textLocal |-> FALSE]
    [] url = "http://localhost:3000/schema.json" ->
         [parses |-> TRUE, https |-> FALSE, hostLocal |-> TRUE, textLocal |-> TRUE]
    [] url = "https://example.com/localhost.json" ->
         [parses |-> TRUE, https |-> TRUE, hostLocal |-> FALSE, textLocal |-> TRUE]
    [] OTHER ->
         [parses |-> FALSE, https |-> FALSE, hostLocal |-> FALSE, textLocal |-> FALSE]

validateURL(url) == UrlInfo(url).parses

\* mutation point: a discouraged URL is rejected
validateSchemaURLStrict(schemaUrl) ==
  IF validateURL(schemaUrl) /\ UrlInfo(schemaUrl).https
     /\ ~UrlInfo(schemaUrl).textLocal
    THEN [valid |-> TRUE]
  ELSE [valid |-> FALSE]

validateSchemaURL(schemaUrl) ==
  IF ~validateURL(schemaUrl) THEN [valid |-> FALSE]
  ELSE IF UrlInfo(schemaUrl).textLocal
    THEN [valid |-> TRUE, warning |-> "Schema URL points to localhost"]
  ELSE IF ~UrlInfo(schemaUrl).https
    THEN [valid |-> TRUE, warning |-> "Schema URL is not using HTTPS"]
  ELSE [valid |-> TRUE]

(***************************************************************************)
(* Errors.  A message is the sequence of its parts, joined by ': ' in the  *)
(* program.                                                                *)
(***************************************************************************)
PlainError(msg) == [class |-> "Error", message |-> msg]
ValidationError(msg) ==
  [class |-> "ValidationError", message |-> <<"Validation failed">> \o msg]
InjectionError(msg, cause) ==
  [class |-> "InjectionError", message |-> <<"Injection failed">> \o msg,
   cause |-> cause]
IsStructPDFError(e) ==
  e.class \in {"StructPDFError", "InjectionError", "ExtractionError",
               "ValidationError", "FileSystemError"}

(***************************************************************************)
(* StructPDFInjector.extractVersion and preparePayload.                    *)
(***************************************************************************)
\* mutation point: the version is never read from the data
extractVersionUnknown(data) == "unknown"

extractVersion(data) ==
  IF data.t = "obj" /\ Get(data, "specVersion").t = "str"
    THEN Get(data, "specVersion").s
  ELSE "unknown"

\* crypto.createHash(algorithm).update(text).digest('hex')
HexLen(algorithm) ==
  CASE algorithm = "md5" -> 32
    [] algorithm = "sha1" -> 40
    [] algorithm = "sha224" -> 56
    [] algorithm = "sha256" -> 64
    [] algorithm = "sha384" -> 96
    [] algorithm = "sha512" -> 128
createHash(algorithm, text) ==
  [t |-> "str", s |-> "", pad |-> HexLen(algorithm), rnd |-> TRUE,
   h |-> <<algorithm, text>>]

\* mutation point: the digest is taken over the payload and the domain
preparePayloadHashAll(data, options, now) ==
  LET hashed == JObj(<< <<"domain", JStr(options.domain)>>, <<"payload", data>> >>)
      integrity ==
        IF options.addIntegrity
          THEN << <<"integrity",
                    JObj(<< <<"algorithm", JStr("sha256")>>,
                            <<"hash", createHash("sha256", Stringify(hashed))>> >>)>> >>
        ELSE <<>>
      metadata == JObj(<< <<"createdAt", JStr(toISOString(now))>>,
                          <<"generator", JStr(GENERATOR)>>,
                          <<"compressed", JBool(FALSE)>> >> \o integrity)
  IN JObj(<< <<"domain", JStr(IF options.domain # "" THEN options.domain
                              ELSE "GENERIC")>>,
             <<"version", JStr(extractVersion(data))>>,
             <<"schema", JStr(options.schemaUrl)>>,
             <<"payload", data>>,
             <<"metadata", metadata>> >>)

preparePayload(data, options, now) ==
  LET integrity ==
        IF options.addIntegrity
          THEN << <<"integrity",
                    JObj(<< <<"algorithm", JStr("sha256")>>,
                            <<"hash", createHash("sha256", Stringify(data))>> >>)>> >>
        ELSE <<>>
      metadata == JObj(<< <<"createdAt", JStr(toISOString(now))>>,
                          <<"generator", JStr(GENERATOR)>>,
                          <<"compressed", JBool(FALSE)>> >> \o integrity)
  IN JObj(<< <<"domain", JStr(IF options.domain # "" THEN options.domain
                              ELSE "GENERIC")>>,
             <<"version", JStr(extractVersion(data))>>,
             <<"schema", JStr(options.schemaUrl)>>,
             <<"payload", data>>,
             <<"metadata", metadata>> >>)

\* obj.key = val on an object that has the key
SetMember(obj, key, val) ==
  JObj([i \in 1..Len(obj.members) |->
          IF obj.members[i][1] = key THEN <<key, val>> ELSE obj.members[i]])

(***************************************************************************)
(* StructPDFInjector.inject.  The result is                                *)
(*   [threw |-> TRUE, error, steps]  or                                    *)
(*   [threw |-> FALSE, result, written, steps]                             *)
(* written is the document handed to fs.writeFile; steps records what the  *)
(* call computed on the way (willCompress, the lengths, the stored bytes). *)
(***************************************************************************)
NoSteps == [sized |-> FALSE]

\* the compression decision and the size check of inject
ShouldCompressAtThreshold(options, tempBytes) ==
  options.compress /\ tempBytes.len >= THRESHOLD
ShouldCompress(options, tempBytes) ==
  options.compress /\ tempBytes.len > THRESHOLD

TooLargeAtLimit(dataBytes) == dataBytes.len >= MAX_PAYLOAD_SIZE
TooLarge(dataBytes) == dataBytes.len > MAX_PAYLOAD_SIZE

injectBody(files, pdfPath, data, outputPath, options, now) ==
  IF ~validateJSON(data)
    THEN [threw |-> TRUE, steps |-> NoSteps,
          error |-> ValidationError(<<"Invalid JSON data provided">>)]
  ELSE IF ~validateSchemaURL(options.schemaUrl).valid
    THEN [threw |-> TRUE, steps |-> NoSteps,
          error |-> ValidationError(<<"Invalid schema URL provided">>)]
  ELSE IF pdfPath = "" \/ outputPath = ""
    THEN [threw |-> TRUE, steps |-> NoSteps,
          error |-> PlainError(<<"Invalid path", "path must be a non-empty string">>)]
  ELSE IF files[pdfPath].t = "missing"
    THEN [threw |-> TRUE, steps |-> NoSteps,
          error |-> PlainError(<<"File not found or not readable", pdfPath>>)]
  ELSE IF files[pdfPath].t # "pdf"
    THEN [threw |-> TRUE, steps |-> NoSteps,
          error |-> PlainError(<<"Failed to parse PDF document">>)]
  ELSE
    LET pdfDoc == files[pdfPath].doc IN
    IF ~options.overwrite /\ hasStructPDFData(pdfDoc)
      THEN [threw |-> TRUE, steps |-> NoSteps,
            error |-> PlainError(<<"PDF already contains StructPDF data. Use overwrite option to replace.">>)]
    ELSE
      LET prepared == preparePayload(data, options, now)
          tempBytes == Encode(prepared)
          willCompress == ShouldCompress(options, tempBytes)
          payload ==
            IF willCompress
              THEN SetMember(prepared, "metadata",
                             SetMember(Get(prepared, "metadata"), "compressed",
                                       JBool(TRUE)))
            ELSE prepared
          encoded == Encode(payload)
          dataBytes == IF willCompress THEN compress(encoded) ELSE encoded
          steps == [sized |-> TRUE, willCompress |-> willCompress,
                    tempLen |-> tempBytes.len, finalLen |-> dataBytes.len]
      IN
      IF TooLarge(dataBytes)
        THEN [threw |-> TRUE, steps |-> steps,
              error |-> PlainError(<<"Payload too large", "bytes">>)]
      ELSE
        LET removedDoc == IF options.overwrite
                            THEN removeFile(pdfDoc, EMBEDDED_FILE_NAME).doc
                          ELSE pdfDoc
            embedded == embedFile(removedDoc, EMBEDDED_FILE_NAME, dataBytes)
            m1 == addMetadata(embedded, HAS_STRUCTPDF, "true")
            m2 == addMetadata(m1, STRUCTPDF_VERSION, extractVersion(data))
            m3 == addMetadata(m2, STRUCTPDF_DOMAIN, Get(payload, "domain").s)
            result == IF willCompress
                        THEN [metadata |-> Get(payload, "metadata"),
                              outputPath |-> outputPath, success |-> TRUE,
                              warnings |-> <<"Data was compressed">>]
                      ELSE [metadata |-> Get(payload, "metadata"),
                            outputPath |-> outputPath, success |-> TRUE]
        IN [threw |-> FALSE, steps |-> steps, result |-> result, written |-> m3]

\* mutation point: the catch wraps whatever was thrown
injectWrapAll(files, pdfPath, data, outputPath, options, now) ==
  LET r == injectBody(files, pdfPath, data, outputPath, options, now) IN
    IF r.threw
      THEN [r EXCEPT !.error = InjectionError(r.error.message, r.error)]
    ELSE r

inject(files, pdfPath, data, outputPath, options, now) ==
  LET r == injectBody(files, pdfPath, data, outputPath, options, now) IN
    IF r.threw /\ ~IsStructPDFError(r.error)
      THEN [r EXCEPT !.error = InjectionError(r.error.message, r.error)]
    ELSE r

(***************************************************************************)
(* StructPDFExtractor.extract.  options.decompress is FALSE only when the  *)
(* caller passed false (the code tests !== false and === false).  The      *)
(* result is a record with the fields the returned object has: success,    *)
(* data when set, errors when set.                                         *)
(***************************************************************************)
ExtractFailSilent(msg) == [success |-> FALSE, errors |-> <<>>]
ExtractFail(msg) == [success |-> FALSE, errors |-> <<msg>>]
ExtractFailData(payload, msg) ==
  [data |-> payload, success |-> FALSE, errors |-> <<msg>>]

\* mutation points of the layer loop: a single decompression, and a loop
\* that fails when the limit is reached with a header still there
DecompressOneLayer(decompressedData, decompressionCount) ==
  IF isGzip(decompressedData) \/ isZlib(decompressedData)
    THEN LET r == decompress(decompressedData) IN
           IF r.ok THEN [data |-> r.data, ok |-> TRUE, count |-> 1]
           ELSE [ok |-> FALSE, msg |-> r.msg, count |-> 0]
  ELSE [data |-> decompressedData, ok |-> TRUE, count |-> 0]

RECURSIVE DecompressLayersStrict(_, _)
DecompressLayersStrict(decompressedData, decompressionCount) ==
  IF isGzip(decompressedData) \/ isZlib(decompressedData)
    THEN IF decompressionCount < MAX_LAYERS
           THEN LET r == decompress(decompressedData) IN
                  IF r.ok THEN DecompressLayersStrict(r.data, decompressionCount + 1)
                  ELSE [ok |-> FALSE, msg |-> r.msg, count |-> decompressionCount]
         ELSE [ok |-> FALSE, msg |-> <<"Too many compression layers">>,
               count |-> decompressionCount]
  ELSE [data |-> decompressedData, ok |-> TRUE, count |-> decompressionCount]

\* the while loop: decompress while a header is detected, up to MAX_LAYERS
RECURSIVE DecompressLayers(_, _)
DecompressLayers(decompressedData, decompressionCount) ==
  IF decompressionCount < MAX_LAYERS
     /\ (isGzip(decompressedData) \/ isZlib(decompressedData))
    THEN LET r == decompress(decompressedData) IN
           IF r.ok THEN DecompressLayers(r.data, decompressionCount + 1)
           ELSE [ok |-> FALSE, msg |-> r.msg, count |-> decompressionCount]
  ELSE [data |-> decompressedData, ok |-> TRUE, count |-> decompressionCount]

\* new TextDecoder().decode(bytes) followed by JSON.parse
ParseBytes(bytes) ==
  IF bytes.k = "text" /\ Parse(bytes.toks).ok
    THEN [ok |-> TRUE, payload |-> Parse(bytes.toks).val]
  ELSE [ok |-> FALSE, msg |-> <<"Unexpected token">>]

\* the else-if that refuses compressed bytes when decompress is false
DecompressDisabledIgnored(isCompressed, options) == FALSE
DecompressDisabled(isCompressed, options) == isCompressed /\ ~options.decompress

\* the inner try block: detection, layered decompression, parse
DecodeStored(structpdfData, options) ==
  LET isCompressed == isGzip(structpdfData) \/ isZlib(structpdfData) IN
    IF isCompressed /\ options.decompress
      THEN LET r == DecompressLayers(structpdfData, 0) IN
             IF r.ok THEN ParseBytes(r.data) ELSE [ok |-> FALSE, msg |-> r.msg]
    ELSE IF DecompressDisabled(isCompressed, options)
      THEN [ok |-> FALSE,
            msg |-> <<"Data is compressed but decompress option is false">>]
    ELSE ParseBytes(structpdfData)

\* JavaScript truthiness of a JSON value or undefined
\* mutation point: every value counts as present
AlwaysTruthy(v) == TRUE

Truthy(v) ==
  CASE v.t \in {"undefined", "null"} -> FALSE
    [] v.t = "bool" -> v.b
    [] v.t = "num" -> v.n # 0
    [] v.t = "str" -> StrLen(v.s) + v.pad > 0
    [] OTHER -> TRUE

\* mutation point: every algorithm name passes
AnyAlgorithm(algorithm) == algorithm.t = "str"

IsSupportedAlgorithm(algorithm) ==
  /\ algorithm.t = "str"
  /\ algorithm.pad = 0
  /\ \E i \in 1..Len(SUPPORTED_HASH_ALGORITHMS) :
        SUPPORTED_HASH_ALGORITHMS[i] = algorithm.s

\* the integrity block of the decoded envelope and the final result
VerifyAndReturn(payload, options) ==
  IF ~options.verifyIntegrity THEN [data |-> payload, success |-> TRUE]
  ELSE IF payload.t = "null"
    THEN ExtractFail(<<"Extraction failed", "Cannot read properties of null">>)
  ELSE
    LET metadata == Get(payload, "metadata")
        integrity == Get(metadata, "integrity")
    IN IF ~Truthy(integrity) THEN [data |-> payload, success |-> TRUE]
       ELSE LET algorithm == Get(integrity, "algorithm") IN
         IF ~IsSupportedAlgorithm(algorithm)
           THEN ExtractFailData(payload, <<"Unsupported hash algorithm">>)
         ELSE IF Get(payload, "payload").t = "undefined"
           THEN ExtractFailData(payload, <<"Integrity verification failed",
                                           "The data argument must be of type string">>)
         ELSE IF createHash(algorithm.s, Stringify(Get(payload, "payload")))
                   # Get(integrity, "hash")
           THEN ExtractFailData(payload,
                  <<"Integrity check failed", "data may have been modified">>)
         ELSE [data |-> payload, success |-> TRUE]

extract(files, pdfPath, options) ==
  IF pdfPath = ""
    THEN ExtractFail(<<"Extraction failed", "Invalid path",
                       "path must be a non-empty string">>)
  ELSE IF files[pdfPath].t = "missing"
    THEN ExtractFail(<<"Extraction failed", "File not found or not readable", pdfPath>>)
  ELSE IF files[pdfPath].t # "pdf"
    THEN ExtractFail(<<"Extraction failed", "Failed to parse PDF document">>)
  ELSE LET pdfDoc == files[pdfPath].doc IN
    IF ~hasStructPDFData(pdfDoc)
      THEN ExtractFail(<<"No StructPDF data found in PDF">>)
    ELSE LET structpdfData == getEmbeddedFiles(pdfDoc)[EMBEDDED_FILE_NAME]
             decoded == DecodeStored(structpdfData, options)
         IN IF ~decoded.ok
              THEN ExtractFail(<<"Failed to parse StructPDF data">> \o decoded.msg)
            ELSE VerifyAndReturn(decoded.payload, options)

\* StructPDFExtractor.hasStructPDFData(pdfPath): any failure gives false
\* mutation point: a file that cannot be loaded counts as carrying data
probeUnguarded(files, pdfPath) ==
  /\ pdfPath # ""
  /\ files[pdfPath].t = "pdf" => hasStructPDFData(files[pdfPath].doc)

probe(files, pdfPath) ==
  IF pdfPath = "" \/ files[pdfPath].t # "pdf" THEN FALSE
  ELSE hasStructPDFData(files[pdfPath].doc)

(***************************************************************************)
(* Inputs of the model.                                                    *)
(***************************************************************************)
Paths == {"in.pdf", "out.pdf"}
ValidUrl == "https://example.com/s.json"
HttpUrl == "http://example.com/schema.json"
LocalUrl == "http://localhost:3000/schema.json"

Options(c, i, o, domain, schemaUrl) ==
  [compress |-> c, domain |-> domain, schemaUrl |-> schemaUrl,
   addIntegrity |-> i, overwrite |-> o]
BaseOptions == Options(FALSE, FALSE, FALSE, "", ValidUrl)

\* {data: "xxx..."}: n filler characters, random (rnd) or repeating
Filler(n, rnd) == JObj(<< <<"data", JPad("", n, rnd)>> >>)
\* length of the envelope of Filler(0) under BaseOptions, as text and gzipped
BaseLen == Encode(preparePayload(Filler(0, TRUE), BaseOptions, 1)).len
BaseGzLen == gzip(Encode(preparePayload(Filler(0, TRUE), BaseOptions, 1))).len

vAda == JObj(<< <<"name", JStr("Ada")>> >>)
vMix == JObj(<< <<"specVersion", JStr("2.1.0")>>,
                <<"content", JArr(<<JNum(12), JNull, JBool(TRUE), JStr("a"),
                                    JArr(<<>>), JObj(<<>>)>>)>> >>)
\* envelopes of exactly THRESHOLD and THRESHOLD + 1 bytes under BaseOptions
vThr0 == Filler(THRESHOLD - BaseLen, FALSE)
vThr1 == Filler(THRESHOLD + 1 - BaseLen, FALSE)
\* envelopes of exactly MAX_PAYLOAD_SIZE and one more byte, which gzip shrinks
vMax0 == Filler(MAX_PAYLOAD_SIZE - BaseLen, FALSE)
vMax1 == Filler(MAX_PAYLOAD_SIZE + 1 - BaseLen, FALSE)
\* envelopes that gzip to exactly MAX_PAYLOAD_SIZE and to one more byte
vRnd0 == Filler(MAX_PAYLOAD_SIZE - BaseGzLen, TRUE)
vRnd1 == Filler(MAX_PAYLOAD_SIZE + 1 - BaseGzLen, TRUE)
\* a plain object holding a Date
vInst == JObj(<< <<"name", Inst>> >>)
\* a specVersion that is not a string, and an array
vNumVer == JObj(<< <<"specVersion", JNum(2)>> >>)
vArr == JArr(<<JStr("a")>>)

\* the (data, options) pairs inject is called with
InjectCalls ==
  ({vMix, vThr1} \X
     {Options(c, i, o, "", ValidUrl) : c \in BOOLEAN, i \in BOOLEAN, o \in BOOLEAN})
  \cup {<<vThr0, Options(TRUE, FALSE, FALSE, "", ValidUrl)>>,
        <<vMax0, Options(FALSE, FALSE, FALSE, "", ValidUrl)>>,
        <<vMax1, Options(FALSE, FALSE, FALSE, "", ValidUrl)>>,
        <<vMax1, Options(TRUE, FALSE, FALSE, "", ValidUrl)>>,
        <<vRnd0, Options(TRUE, FALSE, FALSE, "", ValidUrl)>>,
        <<vRnd1, Options(TRUE, FALSE, FALSE, "", ValidUrl)>>,
        <<vAda, BaseOptions>>,
        <<vAda, Options(FALSE, FALSE, TRUE, "RESUME", ValidUrl)>>,
        <<vInst, BaseOptions>>,
        <<vAda, Options(FALSE, FALSE, FALSE, "", "not-a-url")>>,
        <<vAda, Options(FALSE, FALSE, FALSE, "", HttpUrl)>>,
        <<vAda, Options(FALSE, FALSE, TRUE, "", LocalUrl)>>,
        <<vNumVer, BaseOptions>>,
        <<vMix, Options(FALSE, TRUE, TRUE, "RESUME", HttpUrl)>>,
        <<vArr, Options(FALSE, TRUE, TRUE, "RESUME", ValidUrl)>>}

\* the calls made on a path that holds no document
SmokeCalls ==
  {<<vAda, BaseOptions>>, <<vInst, BaseOptions>>,
   <<vAda, Options(FALSE, FALSE, FALSE, "", "not-a-url")>>,
   <<vAda, Options(FALSE, FALSE, FALSE, "", HttpUrl)>>}

ExtractOptions == [decompress : BOOLEAN, verifyIntegrity : BOOLEAN]
DefaultExtractOptions == [decompress |-> TRUE, verifyIntegrity |-> FALSE]
\* the (pdfPath, options) pairs extract is called with
ExtractCalls == (Paths \X ExtractOptions) \cup {<<"", DefaultExtractOptions>>}

\* pairs a source document may already hold
OtherName == "other.txt"
PairPool ==
  {Pair(OtherName, FileSpec(RawBytes(10))),
   Pair(OtherName, Broken("noEF")),
   Pair(OtherName, Broken("noF")),
   Pair(EMBEDDED_FILE_NAME, FileSpec(Encode(JNull)))}

RECURSIVE SeqsUpTo(_, _)
SeqsUpTo(S, n) ==
  IF n = 0 THEN {<<>>}
  ELSE LET shorter == SeqsUpTo(S, n - 1) IN
         shorter \cup {Append(q, x) : q \in shorter, x \in S}

\* k successive compressions of a byte array, gzip and zlib in turn
RECURSIVE Layered(_, _)
Layered(data, k) ==
  IF k = 0 THEN data
  ELSE IF k % 2 = 1 THEN gzip(Layered(data, k - 1))
  ELSE deflate(Layered(data, k - 1))

FreshDoc == Doc(0, <<>>, <<>>, "")
\* documents of another producer: the reserved entry holds an envelope
\* compressed k times
LayeredDocs ==
  {Doc(3, <<Pair(EMBEDDED_FILE_NAME,
                 FileSpec(Layered(Encode(preparePayload(vAda, BaseOptions, 1)), k)))>>,
       <<>>, "") : k \in 1..MaxStoredLayers}
InitDocs ==
  {Doc(c, <<>>, <<>>, "") : c \in 0..2}
  \cup {Doc(0, <<>>, <<Word(<<"a">>), Word(<<"b">>)>>, "someone")}
  \cup {addStructPDFMetadata(FreshDoc, "GENERIC", "", "")}
  \cup {Doc(3, ps, <<>>, "") : ps \in SeqsUpTo(PairPool, MaxInitPairs)}

(***************************************************************************)
(* State.                                                                  *)
(*   fs      the content of each file                                      *)
(*   last    the last call and what it returned or threw                   *)
(*   origin  per file, how its content came about (history)                *)
(*   now     the clock read by new Date()                                  *)
(*   calls   number of calls so far that changed a file                    *)
(*   done    the run has made its reading call (extract or                 *)
(*           hasStructPDFData), which ends it                              *)
(*   tasks   the calls in flight when calls run concurrently, each with    *)
(*           its position and what it has read (ConcSpec)                  *)
(***************************************************************************)
VARIABLES fs, last, origin, now, calls, done, tasks
vars == <<fs, last, origin, now, calls, done, tasks>>

NoTasks == [start |-> <<>>, run |-> <<>>]

NoOrigin == [by |-> "init", tamper |-> "none"]
InjectOrigin(data, options, source, at, steps) ==
  [data |-> data, options |-> options, steps |-> steps, by |-> "inject",
   tamper |-> "none", source |-> source, at |-> at]

\* what the source file may be when the run starts, unless an earlier run
\* wrote it
SourceFiles == {Missing, Junk} \cup {Pdf(d) : d \in InitDocs \cup LayeredDocs}

\* the injections of an earlier run, at instant 1, into a fresh document
PriorCalls ==
  {<<vAda, BaseOptions>>,
   <<vMix, Options(FALSE, TRUE, FALSE, "", ValidUrl)>>,
   <<vThr1, Options(TRUE, TRUE, FALSE, "RESUME", ValidUrl)>>}

Init ==
  /\ \/ \E src \in SourceFiles :
          /\ fs = [p \in Paths |-> IF p = "in.pdf" THEN src ELSE Missing]
          /\ origin = [p \in Paths |-> NoOrigin]
     \/ \E c \in PriorCalls :
          \E r \in {inject([p \in Paths |-> Pdf(FreshDoc)], "in.pdf", c[1],
                           "in.pdf", c[2], 1)} :
            /\ fs = [p \in Paths |-> IF p = "in.pdf" THEN Pdf(r.written) ELSE Missing]
            /\ origin = [p \in Paths |->
                           IF p = "in.pdf"
                             THEN InjectOrigin(c[1], c[2], Pdf(FreshDoc), 1, r.steps)
                           ELSE NoOrigin]
  /\ last = [op |-> "none"]
  /\ now = 2
  /\ calls = 0
  /\ done = FALSE
  /\ tasks = NoTasks

\* mutation point: the output file is opened for writing before the work,
\* so a failing call leaves it without a document
InjectTruncating(pdfPath, data, outputPath, options) ==
  /\ ~done
  /\ calls < MaxCalls
  /\ \E r \in {inject(fs, pdfPath, data, outputPath, options, now)} :
       /\ fs' = [fs EXCEPT ![outputPath] = IF r.threw THEN Junk ELSE Pdf(r.written)]
       /\ origin' = IF r.threw THEN origin
                    ELSE [origin EXCEPT ![outputPath] =
                            InjectOrigin(data, options, fs[pdfPath], now, r.steps)]
       /\ last' = [data |-> data, options |-> options, pdfPath |-> pdfPath,
                   outputPath |-> outputPath, threw |-> r.threw,
                   steps |-> r.steps, source |-> fs[pdfPath],
                   op |-> "inject", before |-> fs[outputPath],
                   out |-> IF r.threw THEN r.error ELSE r.result]
  /\ now' = now + 1
  /\ calls' = calls + 1
  /\ UNCHANGED <<done, tasks>>

\* inject(pdfPath, data, outputPath, options)
Inject(pdfPath, data, outputPath, options) ==
  /\ ~done
  /\ calls < MaxCalls
  /\ \E r \in {inject(fs, pdfPath, data, outputPath, options, now)} :
       /\ fs' = IF r.threw THEN fs ELSE [fs EXCEPT ![outputPath] = Pdf(r.written)]
       /\ origin' = IF r.threw THEN origin
                    ELSE [origin EXCEPT ![outputPath] =
                            InjectOrigin(data, options, fs[pdfPath], now, r.steps)]
       /\ last' = [data |-> data, options |-> options, pdfPath |-> pdfPath,
                   outputPath |-> outputPath, threw |-> r.threw,
                   steps |-> r.steps, source |-> fs[pdfPath],
                   op |-> "inject", before |-> fs[outputPath],
                   out |-> IF r.threw THEN r.error ELSE r.result]
  /\ now' = now + 1
  /\ calls' = calls + 1
  /\ UNCHANGED <<done, tasks>>

\* extract(pdfPath, options)
Extract(pdfPath, options) ==
  /\ ~done
  /\ last' = [options |-> options, pdfPath |-> pdfPath, op |-> "extract",
              out |-> extract(fs, pdfPath, options)]
  /\ done' = TRUE
  /\ UNCHANGED <<fs, origin, now, calls, tasks>>

\* hasStructPDFData(pdfPath)
HasStructPDFData(pdfPath) ==
  /\ ~done
  /\ last' = [pdfPath |-> pdfPath, op |-> "hasStructPDFData",
              out |-> probe(fs, pdfPath)]
  /\ done' = TRUE
  /\ UNCHANGED <<fs, origin, now, calls, tasks>>

\* EmbeddedFileManager.embedFile(pdfDoc, fileName, fileData) on the document
\* of a file
EmbedFile(pdfPath, fileName, fileData) ==
  /\ ~done
  /\ calls < MaxCalls
  /\ fs[pdfPath].t = "pdf"
  /\ fs' = [fs EXCEPT ![pdfPath] = Pdf(embedFile(fs[pdfPath].doc, fileName, fileData))]
  /\ origin' = [origin EXCEPT ![pdfPath] = [by |-> "embedFile", tamper |-> "none"]]
  /\ last' = [fileName |-> fileName, fileData |-> fileData, pdfPath |-> pdfPath,
              op |-> "embedFile", before |-> fs[pdfPath]]
  /\ calls' = calls + 1
  /\ UNCHANGED <<now, done, tasks>>

\* EmbeddedFileManager.removeFile(pdfDoc, fileName) on the document of a file
RemoveFile(pdfPath, fileName) ==
  /\ ~done
  /\ calls < MaxCalls
  /\ fs[pdfPath].t = "pdf"
  /\ \E r \in {removeFile(fs[pdfPath].doc, fileName)} :
       /\ fs' = [fs EXCEPT ![pdfPath] = Pdf(r.doc)]
       /\ last' = [fileName |-> fileName, pdfPath |-> pdfPath, op |-> "removeFile",
                   before |-> fs[pdfPath], out |-> r.removed]
  /\ origin' = [origin EXCEPT ![pdfPath] = [by |-> "removeFile", tamper |-> "none"]]
  /\ calls' = calls + 1
  /\ UNCHANGED <<now, done, tasks>>

\* the stored stream of the reserved entry after an outside rewrite
\* the envelope with this integrity block in its metadata
WithIntegrity(envelope, block) ==
  LET metadata == Get(envelope, "metadata") IN
    SetMember(envelope, "metadata",
              IF HasKey(metadata, "integrity")
                THEN SetMember(metadata, "integrity", block)
              ELSE JObj(metadata.members \o << <<"integrity", block>> >>))

Altered(stored, kind) ==
  LET inner == IF isGzip(stored.body) THEN stored.body.body ELSE stored.body
      envelope == Parse(inner.toks).val
      Stored(v) == deflate(IF isGzip(stored.body) THEN gzip(Encode(v))
                           ELSE Encode(v))
  IN CASE kind = "payload" -> Stored(SetMember(envelope, "payload", JStr("evil")))
       [] kind = "corrupt" -> [stored EXCEPT !.ok = FALSE]
       [] kind = "badjson" -> deflate(Text(<<Punct("{")>>, 1))
       [] kind = "algorithm" ->
            Stored(WithIntegrity(envelope,
                     JObj(<< <<"algorithm", JStr("sha224")>>,
                             <<"hash", createHash("sha256",
                                         Stringify(Get(envelope, "payload")))>> >>)))
       [] kind = "header" ->
            Stored(SetMember(SetMember(SetMember(envelope, "domain", JStr("evil")),
                                       "schema", JStr("not-a-url")),
                             "metadata",
                             SetMember(Get(envelope, "metadata"), "createdAt",
                                       JStr("T4"))))
       [] kind = "rehash" ->
            Stored(WithIntegrity(envelope,
                     JObj(<< <<"algorithm", JStr("sha224")>>,
                             <<"hash", createHash("sha224",
                                         Stringify(Get(envelope, "payload")))>> >>)))

TamperKinds == {"payload", "corrupt", "badjson", "algorithm", "rehash", "header"}

\* an outside party rewrites the stored stream of an injected document:
\* another payload field, a damaged stream, text that is not JSON, an
\* integrity block naming sha224, with the old digest or a sha224 digest,
\* or another domain, schema and creation time
Tamper(pdfPath, kind) ==
  /\ ~done
  /\ calls < MaxCalls
  /\ fs[pdfPath].t = "pdf"
  /\ origin[pdfPath].by = "inject"
  /\ origin[pdfPath].tamper = "none"
  /\ fs' = [fs EXCEPT ![pdfPath].doc.pairs =
              [i \in 1..Len(@) |->
                 IF @[i].name = EMBEDDED_FILE_NAME /\ @[i].spec.k = "ok"
                   THEN Pair(@[i].name, FileSpec(Altered(@[i].spec.data, kind)))
                 ELSE @[i]]]
  /\ origin' = [origin EXCEPT ![pdfPath].tamper = kind]
  /\ last' = [kind |-> kind, pdfPath |-> pdfPath, op |-> "tamper"]
  /\ calls' = calls + 1
  /\ UNCHANGED <<now, done, tasks>>

Next ==
  \/ \E pdfPath \in Paths, c \in InjectCalls :
       /\ fs[pdfPath].t = "pdf" \/ c \in SmokeCalls
       /\ Inject(pdfPath, c[1], "out.pdf", c[2])
  \/ \E c \in ExtractCalls : Extract(c[1], c[2])
  \/ \E pdfPath \in Paths, kind \in TamperKinds : Tamper(pdfPath, kind)
  \/ \E pdfPath \in Paths \cup {""} : HasStructPDFData(pdfPath)
  \/ \E pdfPath \in Paths, fileName \in {EMBEDDED_FILE_NAME, OtherName} :
       EmbedFile(pdfPath, fileName, Encode(vAda))
  \/ \E pdfPath \in Paths, fileName \in {EMBEDDED_FILE_NAME, OtherName} :
       RemoveFile(pdfPath, fileName)

Spec == Init /\ [][Next]_vars

(***************************************************************************)
(* The handler level.  HandlerSpec runs the functions under inject and     *)
(* extract on their own: the keyword writers of PDFHandler on the document *)
(* of a file, decompress on byte arrays and validateSchemaURL on URL       *)
(* texts, next to inject itself.                                           *)
(***************************************************************************)
\* new PDFHandler(doc).addMetadata(key, value) on the document of a file
AddMetadata(pdfPath, key, value) ==
  /\ ~done
  /\ calls < MaxHandlerCalls
  /\ fs[pdfPath].t = "pdf"
  /\ fs' = [fs EXCEPT ![pdfPath] = Pdf(addMetadata(fs[pdfPath].doc, key, value))]
  /\ origin' = [origin EXCEPT ![pdfPath] = [by |-> "addMetadata", tamper |-> "none"]]
  /\ last' = [key |-> key, value |-> value, pdfPath |-> pdfPath,
              op |-> "addMetadata", before |-> fs[pdfPath]]
  /\ calls' = calls + 1
  /\ UNCHANGED <<now, done, tasks>>

\* new PDFHandler(doc).addStructPDFMetadata(domain, specID, specName)
AddStructPDFMetadata(pdfPath, domain, specID, specName) ==
  /\ ~done
  /\ calls < MaxHandlerCalls
  /\ fs[pdfPath].t = "pdf"
  /\ fs' = [fs EXCEPT ![pdfPath] =
              Pdf(addStructPDFMetadata(fs[pdfPath].doc, domain, specID, specName))]
  /\ origin' = [origin EXCEPT ![pdfPath] =
                  [by |-> "addStructPDFMetadata", tamper |-> "none"]]
  /\ last' = [domain |-> domain, specID |-> specID, specName |-> specName,
              pdfPath |-> pdfPath, op |-> "addStructPDFMetadata",
              before |-> fs[pdfPath]]
  /\ calls' = calls + 1
  /\ UNCHANGED <<now, done, tasks>>

\* decompress(data) called on its own
Decompress(data) ==
  /\ ~done
  /\ last' = [data |-> data, op |-> "decompress", out |-> decompress(data)]
  /\ done' = TRUE
  /\ UNCHANGED <<fs, origin, now, calls, tasks>>

\* byte arrays of 0, 1 and 4 bytes without a known header, gzip and zlib
\* streams, a stream in a stream, and damaged streams
DecompressInputs ==
  {RawBytes(0), RawBytes(1), RawBytes(4),
   gzip(Encode(vAda)), deflate(Encode(vAda)), deflate(gzip(Encode(vAda))),
   [gzip(Encode(vAda)) EXCEPT !.ok = FALSE],
   [deflate(Encode(vAda)) EXCEPT !.ok = FALSE]}

\* URLValidator.validateSchemaURL(schemaUrl) called on its own
ValidateSchemaURL(schemaUrl) ==
  /\ ~done
  /\ last' = [schemaUrl |-> schemaUrl, op |-> "validateSchemaURL",
              out |-> validateSchemaURL(schemaUrl)]
  /\ done' = TRUE
  /\ UNCHANGED <<fs, origin, now, calls, tasks>>

SchemaUrls ==
  {ValidUrl, HttpUrl, LocalUrl, "https://example.com/localhost.json", "not-a-url"}

\* the injections of HandlerSpec
HandlerInjectCalls ==
  {<<vAda, BaseOptions>>,
   <<vMix, Options(FALSE, FALSE, TRUE, "RESUME", ValidUrl)>>}

HandlerNext ==
  \/ \E pdfPath \in Paths :
       AddMetadata(pdfPath, "Project", "x")
  \/ \E pdfPath \in Paths, specID \in {"", "cv-1"} :
       AddStructPDFMetadata(pdfPath, "RESUME", specID, "")
  \/ \E pdfPath \in Paths, c \in HandlerInjectCalls :
       /\ fs[pdfPath].t = "pdf"
       /\ Inject(pdfPath, c[1], "out.pdf", c[2])
  \/ \E data \in DecompressInputs : Decompress(data)
  \/ \E schemaUrl \in SchemaUrls : ValidateSchemaURL(schemaUrl)

HandlerSpec == Init /\ [][HandlerNext]_vars

(***************************************************************************)
(* Concurrent calls.  Two calls run at once on different files; a call is  *)
(* suspended at its awaits on the file system: the access check, the read  *)
(* of the source and, for inject, the write of the output, which follows   *)
(* the whole in-memory work.  Each call keeps what it has read in its own  *)
(* locals; the clock reading of an inject is an input of the call.         *)
(***************************************************************************)
ConcPaths == {"a.pdf", "b.pdf", "c.pdf", "d.pdf"}

InjectCall(pdfPath, data, outputPath, options, at) ==
  [data |-> data, options |-> options, pdfPath |-> pdfPath,
   outputPath |-> outputPath, at |-> at, op |-> "inject"]
ExtractCall(pdfPath, options) ==
  [options |-> options, pdfPath |-> pdfPath, op |-> "extract"]
\* a call in flight: pc is start, checked, read or done; bytes what readFile
\* returned; out the result or the error; peer where the other call stood
\* when this one finished
Task(call) ==
  [bytes |-> Missing, out |-> [op |-> "none"], call |-> call, pc |-> "start",
   peer |-> "none"]

\* mutation point: an in-process cache hands out the bytes the other call
\* has read
ReadBytesCached(files, run, i) ==
  IF run[3 - i].pc \in {"read", "done"} /\ run[3 - i].bytes # Missing
    THEN run[3 - i].bytes
  ELSE files[run[i].call.pdfPath]
\* fs.readFile(validatedPdfPath)
ReadBytes(files, run, i) == files[run[i].call.pdfPath]

\* the files as the call sees them: its source is what it has read
View(files, task) ==
  [p \in DOMAIN files |-> IF p = task.call.pdfPath THEN task.bytes ELSE files[p]]

\* validateInputs and the access check on the source
CheckFails(files, call) ==
  \/ files[call.pdfPath].t = "missing"
  \/ /\ call.op = "inject"
     /\ ~validateJSON(call.data) \/ ~validateSchemaURL(call.options.schemaUrl).valid

\* what an injection leaves behind: the output written, or nothing on a throw
InjectOutcome(files, call, r) ==
  IF r.threw THEN [files |-> files, out |-> r.error]
  ELSE [files |-> [files EXCEPT ![call.outputPath] = Pdf(r.written)],
        out |-> r.result]

\* the whole call on these files: the files afterwards and the result
RunCall(files, call) ==
  IF call.op = "extract"
    THEN [files |-> files, out |-> extract(files, call.pdfPath, call.options)]
  ELSE InjectOutcome(files, call,
                     inject(files, call.pdfPath, call.data, call.outputPath,
                            call.options, call.at))

TaskCheck(i) ==
  /\ tasks.run # <<>>
  /\ tasks.run[i].pc = "start"
  /\ tasks' = [tasks EXCEPT !.run[i] =
       IF CheckFails(fs, tasks.run[i].call)
         THEN [@ EXCEPT !.pc = "done",
                        !.out = RunCall(fs, tasks.run[i].call).out,
                        !.peer = tasks.run[3 - i].pc]
       ELSE [@ EXCEPT !.pc = "checked"]]
  /\ UNCHANGED <<fs, last, origin, now, calls, done>>

TaskRead(i) ==
  /\ tasks.run # <<>>
  /\ tasks.run[i].pc = "checked"
  /\ tasks' = [tasks EXCEPT !.run[i] =
       [@ EXCEPT !.pc = "read", !.bytes = ReadBytes(fs, tasks.run, i)]]
  /\ UNCHANGED <<fs, last, origin, now, calls, done>>

TaskFinish(i) ==
  /\ tasks.run # <<>>
  /\ tasks.run[i].pc = "read"
  /\ \E r \in {RunCall(View(fs, tasks.run[i]), tasks.run[i].call)} :
       /\ fs' = IF tasks.run[i].call.op = "inject"
                  THEN [fs EXCEPT ![tasks.run[i].call.outputPath] =
                          r.files[tasks.run[i].call.outputPath]]
                ELSE fs
       /\ tasks' = [tasks EXCEPT !.run[i] =
            [@ EXCEPT !.pc = "done", !.out = r.out,
                      !.peer = tasks.run[3 - i].pc]]
  /\ UNCHANGED <<last, origin, now, calls, done>>

\* what the four files hold when the two calls start
ConcFiles ==
  {[p \in ConcPaths |->
      CASE p = "a.pdf" -> a
        [] p = "b.pdf" -> b
        [] p = "c.pdf" -> c
        [] p = "d.pdf" -> Missing] :
     a \in {Pdf(FreshDoc), Missing,
            Pdf(Doc(3, <<Pair(OtherName, FileSpec(RawBytes(10)))>>, <<>>, ""))},
     b \in {Missing, Junk},
     c \in {Pdf(Doc(0, <<>>, <<Word(<<"a">>), Word(<<"b">>)>>, "someone")), Junk,
            Pdf(RunCall([p \in ConcPaths |-> Pdf(FreshDoc)],
                        InjectCall("c.pdf", vMix, "c.pdf",
                                   Options(TRUE, TRUE, FALSE, "", ValidUrl), 1))
                  .files["c.pdf"].doc)}}

\* the first call works on a.pdf and b.pdf, the second on c.pdf and d.pdf
FirstCalls ==
  {InjectCall("a.pdf", vAda, "b.pdf", BaseOptions, 2),
   InjectCall("a.pdf", vInst, "b.pdf", BaseOptions, 2),
   ExtractCall("a.pdf", DefaultExtractOptions)}
SecondCalls ==
  {InjectCall("c.pdf", vMix, "d.pdf", Options(FALSE, TRUE, TRUE, "RESUME", ValidUrl), 3),
   ExtractCall("c.pdf", [decompress |-> TRUE, verifyIntegrity |-> TRUE])}

ConcInit ==
  /\ \E files \in ConcFiles, c1 \in FirstCalls, c2 \in SecondCalls :
       /\ fs = files
       /\ tasks = [start |-> files, run |-> <<Task(c1), Task(c2)>>]
  /\ last = [op |-> "none"]
  /\ origin = [p \in ConcPaths |-> NoOrigin]
  /\ now = 2
  /\ calls = 0
  /\ done = FALSE

ConcNext ==
  \/ \E i \in 1..2 : TaskCheck(i)
  \/ \E i \in 1..2 : TaskRead(i)
  \/ \E i \in 1..2 : TaskFinish(i)

ConcSpec == ConcInit /\ [][ConcNext]_vars

(***************************************************************************)
(* Vocabulary of the properties.                                           *)
(***************************************************************************)
\* number of pairs of the pair array of a file's document with this name
NameCount(file, name) ==
  IF file.t = "pdf" /\ file.doc.chain = 3
    THEN Cardinality({i \in 1..Len(file.doc.pairs) : file.doc.pairs[i].name = name})
  ELSE 0
ReservedCount(file) == NameCount(file, EMBEDDED_FILE_NAME)
ReservedNamed(file) == ReservedCount(file) > 0

\* the stream of the pair with the reserved name, read from the pair array
\* itself, and the envelope it holds
StoredEntry(file) ==
  LET i == CHOOSE j \in 1..Len(file.doc.pairs) :
             file.doc.pairs[j].name = EMBEDDED_FILE_NAME
  IN file.doc.pairs[i].spec.data
\* what is under the compression layers of a byte array
RECURSIVE Innermost(_)
Innermost(bytes) ==
  IF bytes.k \in {"gz", "zl"} THEN Innermost(bytes.body) ELSE bytes
EnvelopeIn(file) == Parse(Innermost(StoredEntry(file)).toks).val

\* the call passes validateInputs
ValidCall(data, options) ==
  validateJSON(data) /\ validateSchemaURL(options.schemaUrl).valid

AlreadyContains(e) ==
  /\ e.class = "InjectionError"
  /\ e.message = <<"Injection failed",
                   "PDF already contains StructPDF data. Use overwrite option to replace.">>
IsPayloadTooLarge(e) ==
  /\ e.class = "InjectionError"
  /\ Len(e.message) >= 2
  /\ e.message[1] = "Injection failed"
  /\ e.message[2] = "Payload too large"

\* the file at p is the output of an injection, not altered since
Untouched(p) == origin[p].by = "inject" /\ origin[p].tamper = "none"

\* the run has just called extract or hasStructPDFData on a path that names
\* a file
Extracted == last.op = "extract" /\ last.pdfPath \in Paths
Probed == last.op = "hasStructPDFData" /\ last.pdfPath \in Paths

\* extract has just read a document in which the walk finds the reserved
\* entry; Found is the stream it finds
ExtractFound ==
  /\ Extracted
  /\ fs[last.pdfPath].t = "pdf"
  /\ hasStructPDFData(fs[last.pdfPath].doc)
Found == getEmbeddedFiles(fs[last.pdfPath].doc)[EMBEDDED_FILE_NAME]

\* the number of compression layers of a byte array, and the array with
\* its n outer layers taken off
RECURSIVE LayerCount(_)
LayerCount(bytes) ==
  IF bytes.k \in {"gz", "zl"} THEN 1 + LayerCount(bytes.body) ELSE 0
RECURSIVE Peeled(_, _)
Peeled(bytes, n) == IF n = 0 THEN bytes ELSE Peeled(bytes.body, n - 1)
RECURSIVE LayersIntact(_)
LayersIntact(bytes) ==
  bytes.k \in {"gz", "zl"} => (bytes.ok /\ LayersIntact(bytes.body))
\* the envelope has no integrity block, or one whose digest is that of its
\* payload under a supported algorithm
DigestMatches(envelope) ==
  LET integrity == Get(Get(envelope, "metadata"), "integrity")
      algorithm == Get(integrity, "algorithm")
  IN \/ integrity.t = "undefined"
     \/ /\ integrity.t = "obj"
        /\ algorithm.t = "str"
        /\ algorithm.pad = 0
        /\ algorithm.s \in {"md5", "sha1", "sha256", "sha384", "sha512"}
        /\ Get(integrity, "hash") =
             createHash(algorithm.s, Stringify(Get(envelope, "payload")))
\* the bytes are intact layers over the text of a JSON object
HoldsEnvelope(bytes) ==
  /\ LayersIntact(bytes)
  /\ Innermost(bytes).k = "text"
  /\ Parse(Innermost(bytes).toks).ok
  /\ Parse(Innermost(bytes).toks).val.t = "obj"
EnvelopeOf(bytes) == Parse(Innermost(bytes).toks).val

(***************************************************************************)
(* C1.  Round trip: an injection of a plain-JSON value into a document     *)
(* that has no entry with the reserved name succeeds (unless it reports    *)
(* the size limit), and extract with default options on its output         *)
(* returns success with data.payload equal to the injected value.          *)
(***************************************************************************)
C1_RoundTrip ==
  /\ (/\ last.op = "inject"
      /\ last.source.t = "pdf"
      /\ ~ReservedNamed(last.source)
      /\ ValidCall(last.data, last.options))
       => (~last.threw \/ IsPayloadTooLarge(last.out))
  /\ (/\ Extracted
      /\ last.options = DefaultExtractOptions
      /\ Untouched(last.pdfPath)
      /\ ~ReservedNamed(origin[last.pdfPath].source))
       => (/\ last.out.success
           /\ Get(last.out.data, "payload") = origin[last.pdfPath].data)

\* a compressed injection with an integrity block is read back
C1_Witness ==
  /\ Extracted
  /\ last.options = DefaultExtractOptions
  /\ Untouched(last.pdfPath)
  /\ ~ReservedNamed(origin[last.pdfPath].source)
  /\ origin[last.pdfPath].steps.willCompress
  /\ origin[last.pdfPath].options.addIntegrity
  /\ last.out.success
  /\ Get(last.out.data, "payload") = origin[last.pdfPath].data

(***************************************************************************)
(* C2.  Overwrite guard: an injection without overwrite into a document    *)
(* whose pair array has an entry with the reserved name fails with the     *)
(* 'already contains StructPDF data' error, whatever the valid payload and *)
(* the other options are, and no file changes.                             *)
(***************************************************************************)
C2_OverwriteGuard ==
  (/\ last.op = "inject"
   /\ ReservedNamed(last.source)
   /\ ~last.options.overwrite
   /\ ValidCall(last.data, last.options))
    => (/\ last.threw
        /\ AlreadyContains(last.out)
        /\ fs[last.outputPath] = last.before
        /\ fs[last.pdfPath] = last.source)

\* the guard refuses an injection into a document injected earlier
C2_Witness ==
  /\ last.op = "inject"
  /\ ReservedNamed(last.source)
  /\ ~last.options.overwrite
  /\ last.threw
  /\ AlreadyContains(last.out)
  /\ fs[last.outputPath] = last.before

C4_Step ==
  \A p \in Paths :
    /\ ReservedCount(fs[p]) <= 1 => ReservedCount(fs'[p]) <= 1
    /\ (last'.op = "embedFile" /\ last'.pdfPath = p)
         => NameCount(fs'[p], last'.fileName) = 1
    /\ (last'.op = "inject" /\ ~last'.threw /\ last'.outputPath = p)
         => ReservedCount(fs'[p]) = 1
C4_SingleEntry == [][C4_Step]_vars

\* embedFile has just replaced two pairs with the reserved name by one
C4_Witness ==
  /\ last.op = "embedFile"
  /\ last.fileName = EMBEDDED_FILE_NAME
  /\ ReservedCount(last.before) = 2
  /\ ReservedCount(fs[last.pdfPath]) = 1

(***************************************************************************)
(* C5.  Presence detection: hasStructPDFData returns true on the unaltered *)
(* output of a successful inject, and false on a document whose pair array *)
(* has no entry with the reserved name.                                    *)
(***************************************************************************)
C5_Presence ==
  Probed =>
    /\ Untouched(last.pdfPath) => last.out = TRUE
    /\ (fs[last.pdfPath].t = "pdf" /\ ~ReservedNamed(fs[last.pdfPath]))
         => last.out = FALSE

\* the probe answers true on an injected document
C5_Witness ==
  /\ Probed
  /\ Untouched(last.pdfPath)
  /\ last.out = TRUE

(***************************************************************************)
(* C6.  extract returns a result for every input: with success false the   *)
(* errors list is not empty; with success true the data field is set and   *)
(* there is no errors field.                                               *)
(***************************************************************************)
C6_ExtractResult ==
  last.op = "extract" =>
    /\ last.out.success \in BOOLEAN
    /\ ~last.out.success
         => ("errors" \in DOMAIN last.out /\ Len(last.out.errors) > 0)
    /\ last.out.success
         => ("data" \in DOMAIN last.out /\ "errors" \notin DOMAIN last.out)

\* extract reports a damaged stream as a failure with a reason
C6_Witness ==
  /\ Extracted
  /\ origin[last.pdfPath].by = "inject"
  /\ origin[last.pdfPath].tamper = "corrupt"
  /\ ~last.out.success
  /\ Len(last.out.errors) = 1

(***************************************************************************)
(* C7.  Compression decision: the codec is applied iff options.compress    *)
(* is set and the envelope serialized with compressed = false is longer    *)
(* than 1024 bytes; in a successful inject the flag in the result, the     *)
(* flag in the stored envelope and the presence of the 'Data was           *)
(* compressed' warning all equal whether the codec was applied.            *)
(***************************************************************************)
C7_CompressionDecision ==
  (last.op = "inject" /\ last.steps.sized) =>
    LET envelopeLen ==
          Encode(preparePayload(last.data, last.options, now - 1)).len
        applied == last.options.compress /\ envelopeLen > 1024
    IN /\ last.steps.tempLen = envelopeLen
       /\ last.steps.willCompress = applied
       /\ ~last.threw =>
            /\ (StoredEntry(fs[last.outputPath]).body.k = "gz") = applied
            /\ Get(last.out.metadata, "compressed") = JBool(applied)
            /\ Get(Get(EnvelopeIn(fs[last.outputPath]), "metadata"), "compressed")
                 = JBool(applied)
            /\ ("warnings" \in DOMAIN last.out) = applied
            /\ applied => last.out.warnings = <<"Data was compressed">>

\* an envelope of exactly 1024 bytes is stored as it is although compress
\* was requested
C7_Witness ==
  /\ last.op = "inject"
  /\ ~last.threw
  /\ last.options.compress
  /\ last.steps.tempLen = 1024
  /\ StoredEntry(fs[last.outputPath]).body.k = "text"
  /\ "warnings" \notin DOMAIN last.out

(***************************************************************************)
(* C8.  Size enforcement: inject fails with 'Payload too large' iff the    *)
(* final byte length, taken after compression when compression was         *)
(* applied, is greater than 10485760; the bytes stored by an accepted      *)
(* inject have that final length.                                          *)
(***************************************************************************)
C8_SizeEnforcement ==
  last.op = "inject" =>
    /\ (last.threw /\ IsPayloadTooLarge(last.out))
         <=> (last.steps.sized /\ last.steps.finalLen > 10485760)
    /\ last.steps.sized =>
         LET prepared == preparePayload(last.data, last.options, now - 1)
             applied == last.options.compress /\ Encode(prepared).len > 1024
             envelope ==
               IF applied
                 THEN SetMember(prepared, "metadata",
                                SetMember(Get(prepared, "metadata"), "compressed",
                                          JBool(TRUE)))
               ELSE prepared
         IN /\ last.steps.finalLen =
                 IF applied THEN gzip(Encode(envelope)).len ELSE Encode(envelope).len
            /\ ~last.threw <=> last.steps.finalLen <= 10485760
            /\ ~last.threw
                 => StoredEntry(fs[last.outputPath]).body.len = last.steps.finalLen

\* an envelope over the limit before compression and within it after is
\* accepted
C8_Witness ==
  /\ last.op = "inject"
  /\ ~last.threw
  /\ last.steps.tempLen > 10485760
  /\ last.steps.finalLen <= 10485760

(***************************************************************************)
(* C9.  Tamper detection: on an injected document with an integrity block, *)
(* extract with verifyIntegrity (and decompression enabled) returns        *)
(* success false with the integrity-failure reason and the decoded         *)
(* envelope as data when the payload field was replaced, and success true  *)
(* when the document was not altered.                                      *)
(***************************************************************************)
C9_TamperDetection ==
  (/\ Extracted
   /\ last.options.verifyIntegrity
   /\ last.options.decompress
   /\ origin[last.pdfPath].by = "inject"
   /\ origin[last.pdfPath].options.addIntegrity)
    => /\ origin[last.pdfPath].tamper = "payload"
            => /\ ~last.out.success
               /\ last.out.errors =
                    << <<"Integrity check failed", "data may have been modified">> >>
               /\ "data" \in DOMAIN last.out
               /\ last.out.data = EnvelopeIn(fs[last.pdfPath])
       /\ origin[last.pdfPath].tamper = "none" => last.out.success

\* a replaced payload is reported, with the decoded envelope
C9_Witness ==
  /\ Extracted
  /\ last.options.verifyIntegrity
  /\ origin[last.pdfPath].by = "inject"
  /\ origin[last.pdfPath].tamper = "payload"
  /\ ~last.out.success
  /\ last.out.errors =
       << <<"Integrity check failed", "data may have been modified">> >>
  /\ Get(last.out.data, "payload") = JStr("evil")

(***************************************************************************)
(* C10.  Decompression disabled: when the bytes extract finds under the    *)
(* reserved name start with a gzip or zlib header and the caller passed    *)
(* decompress = false, the result is success false with the message that   *)
(* the data is compressed but decompression is disabled, and nothing       *)
(* else: no data field.                                                    *)
(***************************************************************************)
C10_DecompressDisabled ==
  (/\ Extracted
   /\ ~last.options.decompress
   /\ fs[last.pdfPath].t = "pdf"
   /\ hasStructPDFData(fs[last.pdfPath].doc)
   /\ LET found == getEmbeddedFiles(fs[last.pdfPath].doc)[EMBEDDED_FILE_NAME]
      IN isGzip(found) \/ isZlib(found))
    => last.out =
         [success |-> FALSE,
          errors |-> << <<"Failed to parse StructPDF data",
                          "Data is compressed but decompress option is false">> >>]

\* a payload the injector compressed is refused with decompress = false
C10_Witness ==
  /\ Extracted
  /\ ~last.options.decompress
  /\ Untouched(last.pdfPath)
  /\ origin[last.pdfPath].steps.willCompress
  /\ ~last.out.success
  /\ "data" \notin DOMAIN last.out

(***************************************************************************)
(* C11.  Bounded layered decompression: with decompression enabled the     *)
(* loop of extract performs as many decompressions as there are layers,    *)
(* and never more than 5; when the stream found is 1 to 5 intact layers    *)
(* over an envelope whose digest, if it has one, is that of its payload,   *)
(* extract returns success with that envelope.                             *)
(***************************************************************************)
C11_BoundedLayers ==
  (ExtractFound /\ last.options.decompress) =>
    LET r == DecompressLayers(Found, 0)
        k == LayerCount(Found)
    IN /\ r.count <= 5
       /\ r.ok => r.count = (IF k < 5 THEN k ELSE 5)
       /\ (/\ k \in 1..5
           /\ HoldsEnvelope(Found)
           /\ ~last.options.verifyIntegrity \/ DigestMatches(EnvelopeOf(Found)))
            => (/\ last.out.success
                /\ last.out.data = EnvelopeOf(Found))

\* five layers are taken off and the envelope under them is returned
C11_Witness ==
  /\ ExtractFound
  /\ last.options.decompress
  /\ LayerCount(Found) = 5
  /\ DecompressLayers(Found, 0).count = 5
  /\ last.out.success
  /\ Get(last.out.data, "payload") = vAda

(***************************************************************************)
(* C12 as claimed.  When the stream found carries more than 5 layers,      *)
(* extract with decompression enabled does not return success = false.     *)
(***************************************************************************)
C12_LimitNotFailure ==
  (ExtractFound /\ last.options.decompress /\ LayerCount(Found) > 5
   /\ HoldsEnvelope(Found))
    => last.out.success

(***************************************************************************)
(* C12 amended.  When the stream found carries more than 5 intact layers,  *)
(* the loop stops after 5 decompressions without an error and leaves the   *)
(* remaining bytes compressed; decoding them as JSON text then fails, and  *)
(* extract returns success = false with the parse-failure reason and no    *)
(* data.                                                                   *)
(***************************************************************************)
C12_LimitLeavesData ==
  (ExtractFound /\ last.options.decompress /\ LayerCount(Found) > 5
   /\ HoldsEnvelope(Found))
    => /\ DecompressLayers(Found, 0) =
            [data |-> Peeled(Found, 5), ok |-> TRUE, count |-> 5]
       /\ last.out =
            [success |-> FALSE,
             errors |-> << <<"Failed to parse StructPDF data", "Unexpected token">> >>]

\* six layers: the sixth is left in place and the result is a parse failure
C12_Witness ==
  /\ ExtractFound
  /\ last.options.decompress
  /\ LayerCount(Found) = 6
  /\ Peeled(Found, 5).k \in {"gz", "zl"}
  /\ ~last.out.success
  /\ "data" \notin DOMAIN last.out

(***************************************************************************)
(* C13.  Unsupported algorithm: when extract is called with                *)
(* verifyIntegrity = true and the decoded envelope has an integrity block  *)
(* whose algorithm is not md5, sha1, sha256, sha384 or sha512, the result  *)
(* is success = false with the reason 'Unsupported hash algorithm' and     *)
(* data = the decoded envelope, whatever the stored hash is.               *)
(***************************************************************************)
C13_UnsupportedAlgorithm ==
  (/\ ExtractFound
   /\ last.options.decompress
   /\ last.options.verifyIntegrity
   /\ LayerCount(Found) <= 5
   /\ HoldsEnvelope(Found)
   /\ Get(Get(EnvelopeOf(Found), "metadata"), "integrity").t = "obj"
   /\ LET algorithm ==
            Get(Get(Get(EnvelopeOf(Found), "metadata"), "integrity"), "algorithm")
      IN ~(algorithm.t = "str" /\ algorithm.pad = 0
           /\ algorithm.s \in {"md5", "sha1", "sha256", "sha384", "sha512"}))
    => last.out = [data |-> EnvelopeOf(Found), success |-> FALSE,
                   errors |-> << <<"Unsupported hash algorithm">> >>]

\* the block names sha224 and carries the sha224 digest of the payload:
\* the result is still the unsupported-algorithm failure
C13_Witness ==
  /\ ExtractFound
  /\ last.options.verifyIntegrity
  /\ origin[last.pdfPath].tamper = "rehash"
  /\ LET integrity == Get(Get(EnvelopeOf(Found), "metadata"), "integrity") IN
       /\ Get(integrity, "algorithm") = JStr("sha224")
       /\ Get(integrity, "hash") =
            createHash("sha224", Stringify(Get(EnvelopeOf(Found), "payload")))
  /\ ~last.out.success
  /\ last.out.errors = << <<"Unsupported hash algorithm">> >>
  /\ last.out.data = EnvelopeOf(Found)

(***************************************************************************)
(* C14.  Verification is conditional: when verifyIntegrity is false, or    *)
(* the decoded envelope has no integrity block, extract returns success    *)
(* with the decoded envelope, whatever the stored hash and payload are.    *)
(***************************************************************************)
C14_ConditionalVerification ==
  (/\ ExtractFound
   /\ last.options.decompress
   /\ LayerCount(Found) <= 5
   /\ HoldsEnvelope(Found)
   /\ \/ ~last.options.verifyIntegrity
      \/ Get(Get(EnvelopeOf(Found), "metadata"), "integrity").t = "undefined")
    => last.out = [data |-> EnvelopeOf(Found), success |-> TRUE]

\* the payload was rewritten under an integrity block that no longer
\* matches it, and a read without verification succeeds
C14_Witness ==
  /\ ExtractFound
  /\ ~last.options.verifyIntegrity
  /\ origin[last.pdfPath].tamper = "payload"
  /\ LET integrity == Get(Get(EnvelopeOf(Found), "metadata"), "integrity") IN
       /\ integrity.t = "obj"
       /\ Get(integrity, "hash") #
            createHash("sha256", Stringify(Get(EnvelopeOf(Found), "payload")))
  /\ last.out.success
  /\ Get(last.out.data, "payload") = JStr("evil")

C16_ValidationFirst ==
  last.op = "inject" =>
    /\ (last.data = vInst \/ last.options.schemaUrl = "not-a-url") =>
         /\ last.threw
         /\ last.out.class = "ValidationError"
         /\ last.out.message[1] = "Validation failed"
         /\ last.steps = NoSteps
         /\ fs[last.outputPath] = last.before
    /\ (last.data = vAda /\ last.options.schemaUrl \in {HttpUrl, LocalUrl}) =>
         /\ last.threw => last.out.class # "ValidationError"
         /\ last.threw => (last.source.t # "pdf" \/ AlreadyContains(last.out))
         /\ ~last.threw => fs[last.outputPath].t = "pdf"

\* the value holds a Date and the source file does not exist: the error is
\* the ValidationError
C16_Witness ==
  /\ last.op = "inject"
  /\ last.data = vInst
  /\ last.source = Missing
  /\ last.threw
  /\ last.out = ValidationError(<<"Invalid JSON data provided">>)
  /\ fs[last.pdfPath] = Missing

(***************************************************************************)
(* C17.  Single wrapping: every error that leaves inject is a              *)
(* StructPDFError.  An InjectionError carries as cause the plain error     *)
(* that was thrown, and its message is 'Injection failed: ' followed by    *)
(* the message of the cause; a ValidationError leaves as it was thrown,    *)
(* without cause and without the 'Injection failed' prefix.                *)
(***************************************************************************)
C17_SingleWrapping ==
  (last.op = "inject" /\ last.threw) =>
    /\ last.out.class \in {"StructPDFError", "InjectionError", "ExtractionError",
                           "ValidationError", "FileSystemError"}
    /\ last.out.class = "InjectionError" =>
         /\ "cause" \in DOMAIN last.out
         /\ last.out.cause.class = "Error"
         /\ last.out.message = <<"Injection failed">> \o last.out.cause.message
         /\ last.out.cause.message[1] # "Injection failed"
    /\ last.out.class # "InjectionError" =>
         /\ "cause" \notin DOMAIN last.out
         /\ last.out.message[1] # "Injection failed"
         /\ last.out \in {ValidationError(<<"Invalid JSON data provided">>),
                          ValidationError(<<"Invalid schema URL provided">>)}

\* PDFDocument.load rejected the bytes: the plain error is wrapped once
C17_Witness ==
  /\ last.op = "inject"
  /\ last.threw
  /\ last.source = Junk
  /\ last.out.class = "InjectionError"
  /\ last.out.message = <<"Injection failed", "Failed to parse PDF document">>
  /\ last.out.cause = PlainError(<<"Failed to parse PDF document">>)

(***************************************************************************)
(* C18.  File-system classification: when the source file of inject is     *)
(* missing and the inputs pass validation, the error thrown is a           *)
(* FileSystemError whose message begins 'File system error', not an        *)
(* InjectionError with the 'Injection failed' prefix.                      *)
(***************************************************************************)
C18_FileSystemClass ==
  (/\ last.op = "inject"
   /\ last.source = Missing
   /\ last.data = vAda
   /\ last.options.schemaUrl \in {ValidUrl, HttpUrl})
    => /\ last.threw
       /\ last.out.class = "FileSystemError"
       /\ last.out.message[1] = "File system error"

\* what inject throws for a missing source file
C18_Witness ==
  /\ last.op = "inject"
  /\ last.source = Missing
  /\ last.data = vAda
  /\ last.options.schemaUrl = ValidUrl
  /\ last.threw
  /\ last.out.class = "InjectionError"
  /\ last.out.message =
       <<"Injection failed", "File not found or not readable", last.pdfPath>>

(***************************************************************************)
(* C19.  Envelope fields: after a successful inject the envelope stored in *)
(* the output document has domain = options.domain, or 'GENERIC' when that *)
(* is empty; version = the specVersion of the data when the data is an     *)
(* object with a string specVersion, 'unknown' otherwise; schema =         *)
(* options.schemaUrl; payload = the data; metadata.generator = the         *)
(* generator id; and metadata.integrity, naming sha256, exactly when       *)
(* addIntegrity was asked for.                                             *)
(***************************************************************************)
C19_EnvelopeFields ==
  (last.op = "inject" /\ ~last.threw) =>
    LET e == EnvelopeIn(fs[last.outputPath])
        metadata == Get(e, "metadata")
        d == last.data
        hasVersion == /\ d.t = "obj"
                      /\ \E i \in 1..Len(d.members) :
                            /\ d.members[i][1] = "specVersion"
                            /\ d.members[i][2].t = "str"
    IN /\ Get(e, "domain") = JStr(IF last.options.domain # ""
                                    THEN last.options.domain ELSE "GENERIC")
       /\ hasVersion => Get(e, "version") = Get(d, "specVersion")
       /\ ~hasVersion => Get(e, "version") = JStr("unknown")
       /\ Get(e, "schema") = JStr(last.options.schemaUrl)
       /\ Get(e, "payload") = d
       /\ Get(metadata, "generator") = JStr("@structcv/structpdf")
       /\ last.options.addIntegrity <=> HasKey(metadata, "integrity")
       /\ last.options.addIntegrity =>
            Get(Get(metadata, "integrity"), "algorithm") = JStr("sha256")

\* an array was injected under domain RESUME with an integrity block
C19_Witness ==
  /\ last.op = "inject"
  /\ ~last.threw
  /\ last.data = vArr
  /\ Get(EnvelopeIn(fs[last.outputPath]), "version") = JStr("unknown")
  /\ Get(EnvelopeIn(fs[last.outputPath]), "domain") = JStr("RESUME")
  /\ HasKey(Get(EnvelopeIn(fs[last.outputPath]), "metadata"), "integrity")

(***************************************************************************)
(* C20.  Signal consistency: after a successful inject the keywords of the *)
(* output document contain the tokens 'StructPDF:true' and                 *)
(* 'StructPDF-Domain:<domain>' and hasStructPDFMetadata() is true; and in  *)
(* every document written by inject hasStructPDFMetadata() is true exactly *)
(* when a pair with the reserved name exists.                              *)
(***************************************************************************)
C20_SignalConsistency ==
  /\ (last.op = "inject" /\ ~last.threw) =>
       LET doc == fs[last.outputPath].doc
           domain == IF last.options.domain # "" THEN last.options.domain
                     ELSE "GENERIC"
       IN /\ \E i \in 1..Len(doc.keywords) :
                doc.keywords[i] = Word(<<"StructPDF", ":", "true">>)
          /\ \E i \in 1..Len(doc.keywords) :
                doc.keywords[i] = Word(<<"StructPDF-Domain", ":", domain>>)
          /\ hasStructPDFMetadata(doc)
  /\ \A p \in Paths :
       origin[p].by = "inject" =>
         (hasStructPDFMetadata(fs[p].doc) <=> ReservedNamed(fs[p]))

\* inject has written the reserved entry into a document that carried the
\* signal; the output carries the keyword HasStructPDF:true, spread into
\* characters, and hasStructPDFMetadata() is false
C20_Witness ==
  /\ last.op = "inject"
  /\ ~last.threw
  /\ hasStructPDFMetadata(last.source.doc)
  /\ ReservedNamed(fs[last.outputPath])
  /\ \E i \in 1..Len(fs[last.outputPath].doc.keywords) :
        /\ fs[last.outputPath].doc.keywords[i].w = <<"HasStructPDF", ":", "true">>
        /\ fs[last.outputPath].doc.keywords[i].d > 0
  /\ ~hasStructPDFMetadata(fs[last.outputPath].doc)

(***************************************************************************)
(* C21.  Keywords are appended, never replaced: after addMetadata, after   *)
(* addStructPDFMetadata and after a successful inject the Keywords field   *)
(* is what it was before the call, every word intact and in its place,     *)
(* followed by the new 'key:value' words.                                  *)
(***************************************************************************)
C21_KeywordsAppended ==
  /\ last.op = "addMetadata" =>
       fs[last.pdfPath].doc.keywords =
         last.before.doc.keywords \o <<Word(<<last.key, ":", last.value>>)>>
  /\ last.op = "addStructPDFMetadata" =>
       fs[last.pdfPath].doc.keywords =
         last.before.doc.keywords
           \o <<Word(<<"StructPDF", ":", "true">>),
                Word(<<"StructPDF-Domain", ":", last.domain>>)>>
           \o (IF last.specID # ""
                 THEN <<Word(<<"StructPDF-SpecID", ":", last.specID>>)>>
               ELSE <<>>)
  /\ (last.op = "inject" /\ ~last.threw) =>
       fs[last.outputPath].doc.keywords =
         last.source.doc.keywords
           \o <<Word(<<"HasStructPDF", ":", "true">>),
                Word(<<"StructPDFVersion", ":",
                       IF last.data = vMix THEN "2.1.0" ELSE "unknown">>),
                Word(<<"StructPDFDomain", ":",
                       IF last.options.domain # "" THEN last.options.domain
                       ELSE "GENERIC">>)>>

\* addMetadata on a document whose Keywords were 'a b': the two words are
\* now followed by the new keyword, but spread out ('a   b Project:x')
C21_Witness ==
  /\ last.op = "addMetadata"
  /\ last.before.doc.keywords = <<Word(<<"a">>), Word(<<"b">>)>>
  /\ fs[last.pdfPath].doc.keywords =
       <<[w |-> <<"a">>, d |-> 1], [w |-> <<"b">>, d |-> 1],
         Word(<<"Project", ":", "x">>)>>

(***************************************************************************)
(* C22.  No partial write: when inject fails, at whatever step, the output *)
(* file and the source file hold exactly what they held before the call;   *)
(* when it succeeds, a source file other than the output file is           *)
(* unchanged and the output file holds a document.                         *)
(***************************************************************************)
C22_NoPartialWrite ==
  last.op = "inject" =>
    /\ last.threw =>
         /\ fs[last.outputPath] = last.before
         /\ fs[last.pdfPath] = last.source
    /\ ~last.threw =>
         /\ last.pdfPath # last.outputPath => fs[last.pdfPath] = last.source
         /\ fs[last.outputPath].t = "pdf"

\* the size check, the last step before the entry is written into the
\* document, has failed, and both files are as they were
C22_Witness ==
  /\ last.op = "inject"
  /\ last.threw
  /\ last.steps.sized
  /\ IsPayloadTooLarge(last.out)
  /\ fs[last.outputPath] = last.before
  /\ fs[last.pdfPath] = last.source

(***************************************************************************)
(* C23.  embedFile(name, bytes) creates the levels of the name tree that   *)
(* are missing and leaves the pair array equal to the previous pairs whose *)
(* name differs from name, in their order, followed by one new pair with   *)
(* that name whose filespec leads to a stream holding the bytes.           *)
(***************************************************************************)
C23_EmbedRewrites ==
  last.op = "embedFile" =>
    LET before == IF last.before.doc.chain = 3 THEN last.before.doc.pairs ELSE <<>>
        after == fs[last.pdfPath].doc
        kept == SelectSeq(before, LAMBDA p : p.name # last.fileName)
    IN /\ after.chain = 3
       /\ Len(after.pairs) = Len(kept) + 1
       /\ SubSeq(after.pairs, 1, Len(kept)) = kept
       /\ after.pairs[Len(after.pairs)].name = last.fileName
       /\ after.pairs[Len(after.pairs)].spec.k = "ok"
       /\ after.pairs[Len(after.pairs)].spec.data.body = last.fileData
       /\ after.keywords = last.before.doc.keywords

\* the array held a pair with the name and then another pair: the other
\* pair is now first and the new pair last
C23_Witness ==
  /\ last.op = "embedFile"
  /\ last.before.doc.chain = 3
  /\ Len(last.before.doc.pairs) = 2
  /\ last.before.doc.pairs[1].name = last.fileName
  /\ last.before.doc.pairs[2].name # last.fileName
  /\ Len(fs[last.pdfPath].doc.pairs) = 2
  /\ fs[last.pdfPath].doc.pairs[1] = last.before.doc.pairs[2]
  /\ fs[last.pdfPath].doc.pairs[2].name = last.fileName

(***************************************************************************)
(* C24.  removeFile(name) returns true exactly when the pair array held a  *)
(* pair with that name; then no pair with the name remains and the other   *)
(* pairs are kept in order.  When the name is absent, or a link of the     *)
(* chain to the pair array is missing, it returns false and the document   *)
(* is unchanged.                                                           *)
(***************************************************************************)
C24_RemoveResult ==
  last.op = "removeFile" =>
    LET doc == last.before.doc
        present == /\ doc.chain = 3
                   /\ \E i \in 1..Len(doc.pairs) : doc.pairs[i].name = last.fileName
    IN /\ last.out \in BOOLEAN
       /\ last.out <=> present
       /\ present =>
            /\ fs[last.pdfPath].doc.pairs =
                 SelectSeq(doc.pairs, LAMBDA p : p.name # last.fileName)
            /\ fs[last.pdfPath].doc.chain = 3
            /\ fs[last.pdfPath].doc.keywords = doc.keywords
       /\ ~present => fs[last.pdfPath] = last.before

\* one of two pairs carried the name: true is returned and the other pair
\* is what remains
C24_Witness ==
  /\ last.op = "removeFile"
  /\ last.out = TRUE
  /\ Len(last.before.doc.pairs) = 2
  /\ last.before.doc.pairs[1].name # last.fileName
  /\ last.before.doc.pairs[2].name = last.fileName
  /\ fs[last.pdfPath].doc.pairs = <<last.before.doc.pairs[1]>>

(***************************************************************************)
(* C25.  Tolerance of the walk: a pair whose filespec, EF dictionary or    *)
(* stream cannot be resolved is skipped, so when the pair array holds a    *)
(* resolvable pair with the reserved name, whatever stands before it,      *)
(* getEmbeddedFiles returns the reserved entry and the probe               *)
(* hasStructPDFData answers true.                                          *)
(***************************************************************************)
C25_WalkTolerance ==
  (/\ Probed
   /\ fs[last.pdfPath].t = "pdf"
   /\ fs[last.pdfPath].doc.chain = 3
   /\ \E i \in 1..Len(fs[last.pdfPath].doc.pairs) :
        /\ fs[last.pdfPath].doc.pairs[i].name = EMBEDDED_FILE_NAME
        /\ fs[last.pdfPath].doc.pairs[i].spec.k = "ok")
    => /\ last.out = TRUE
       /\ EMBEDDED_FILE_NAME \in DOMAIN getEmbeddedFiles(fs[last.pdfPath].doc)

\* a filespec without EF stands before the reserved entry and the probe
\* answers false
C25_Witness ==
  /\ Probed
  /\ fs[last.pdfPath].t = "pdf"
  /\ Len(fs[last.pdfPath].doc.pairs) = 2
  /\ fs[last.pdfPath].doc.pairs[1].spec.k = "noEF"
  /\ fs[last.pdfPath].doc.pairs[2].name = EMBEDDED_FILE_NAME
  /\ fs[last.pdfPath].doc.pairs[2].spec.k = "ok"
  /\ last.out = FALSE

(***************************************************************************)
(* C26.  Concurrent calls on different files are independent: when both    *)
(* calls have finished, however their steps were interleaved, the results  *)
(* and the files are those of running the first call and then the second,  *)
(* and those of running the second and then the first.                     *)
(***************************************************************************)
C26_Independent ==
  (/\ tasks.run # <<>>
   /\ tasks.run[1].pc = "done"
   /\ tasks.run[2].pc = "done") =>
    LET c1 == tasks.run[1].call
        c2 == tasks.run[2].call
        first == RunCall(tasks.start, c1)
        firstThenSecond == RunCall(first.files, c2)
        second == RunCall(tasks.start, c2)
        secondThenFirst == RunCall(second.files, c1)
    IN /\ fs = firstThenSecond.files
       /\ fs = secondThenFirst.files
       /\ tasks.run[1].out = first.out
       /\ tasks.run[1].out = secondThenFirst.out
       /\ tasks.run[2].out = second.out
       /\ tasks.run[2].out = firstThenSecond.out

\* two injections: the first wrote its output while the second stood
\* between its read and its write, and both succeeded
C26_Witness ==
  /\ tasks.run # <<>>
  /\ tasks.run[1].pc = "done"
  /\ tasks.run[2].pc = "done"
  /\ tasks.run[1].call.op = "inject"
  /\ tasks.run[2].call.op = "inject"
  /\ tasks.run[1].peer = "read"
  /\ fs["b.pdf"].t = "pdf"
  /\ fs["d.pdf"].t = "pdf"
  /\ fs["b.pdf"] # tasks.start["b.pdf"]

(***************************************************************************)
(* C27.  Integrity covers the payload only: the digest inject stores is    *)
(* the sha256 digest of the stringified data, whatever domain, schemaUrl   *)
(* and compress are; and extract with verifyIntegrity accepts an envelope  *)
(* whose integrity block carries the digest of its payload, whatever its   *)
(* domain, schema and metadata.createdAt are.                              *)
(***************************************************************************)
C27_PayloadOnly ==
  /\ (last.op = "inject" /\ ~last.threw /\ last.options.addIntegrity) =>
       Get(Get(Get(EnvelopeIn(fs[last.outputPath]), "metadata"), "integrity"), "hash")
         = createHash("sha256", Stringify(last.data))
  /\ (/\ ExtractFound
      /\ last.options.decompress
      /\ last.options.verifyIntegrity
      /\ LayerCount(Found) <= 5
      /\ HoldsEnvelope(Found)
      /\ LET integrity == Get(Get(EnvelopeOf(Found), "metadata"), "integrity") IN
           /\ integrity.t = "obj"
           /\ Get(integrity, "algorithm") = JStr("sha256")
           /\ Get(integrity, "hash") =
                createHash("sha256", Stringify(Get(EnvelopeOf(Found), "payload"))))
       => last.out = [data |-> EnvelopeOf(Found), success |-> TRUE]

\* domain, schema and createdAt of a stored envelope were rewritten; the
\* verifying read succeeds and returns the rewritten envelope
C27_Witness ==
  /\ ExtractFound
  /\ last.options.verifyIntegrity
  /\ origin[last.pdfPath].by = "inject"
  /\ origin[last.pdfPath].tamper = "header"
  /\ origin[last.pdfPath].options.addIntegrity
  /\ last.out.success
  /\ Get(last.out.data, "domain") = JStr("evil")
  /\ Get(last.out.data, "payload") = origin[last.pdfPath].data

(***************************************************************************)
(* C28.  decompress classifies its input by the first two bytes and        *)
(* returns no data on failure: fewer than 2 bytes fail as too small for    *)
(* compression detection, 2 or more bytes without a gzip or zlib header    *)
(* fail as an unknown compression format, a sound gzip or zlib stream      *)
(* gives what it holds, and a damaged stream under a known header fails    *)
(* with 'Decompression failed'.                                            *)
(***************************************************************************)
C28_DecompressClasses ==
  last.op = "decompress" =>
    LET d == last.data
        r == last.out
    IN /\ d.len < 2 =>
            /\ ~r.ok
            /\ r.msg = <<"Decompression failed",
                         "Data too small for compression detection">>
       /\ (d.len >= 2 /\ d.k \notin {"gz", "zl"}) =>
            /\ ~r.ok
            /\ r.msg = <<"Decompression failed", "Unknown compression format">>
       /\ (d.len >= 2 /\ d.k \in {"gz", "zl"}) =>
            /\ d.ok => (r.ok /\ r.data = d.body)
            /\ ~d.ok => (~r.ok /\ r.msg[1] = "Decompression failed")
       /\ ~r.ok => r.data = RawBytes(0)

\* four bytes that begin with neither header
C28_Witness ==
  /\ last.op = "decompress"
  /\ last.data = RawBytes(4)
  /\ ~last.out.ok
  /\ last.out.msg = <<"Decompression failed", "Unknown compression format">>

(***************************************************************************)
(* C29.  Schema URL advisory: validateSchemaURL returns valid = false and  *)
(* no warning for a text that does not parse as a URL; for one that        *)
(* parses, valid = true, with a warning exactly when the URL does not use  *)
(* https or its host is localhost or 127.0.0.1.                            *)
(***************************************************************************)
C29_UrlAdvisory ==
  last.op = "validateSchemaURL" =>
    LET info == UrlInfo(last.schemaUrl) IN
      /\ ~info.parses => last.out = [valid |-> FALSE]
      /\ info.parses =>
           /\ last.out.valid
           /\ ("warning" \in DOMAIN last.out) <=> (~info.https \/ info.hostLocal)

\* an https URL on another host whose path contains 'localhost' is given
\* the localhost warning
C29_Witness ==
  /\ last.op = "validateSchemaURL"
  /\ last.schemaUrl = "https://example.com/localhost.json"
  /\ last.out = [valid |-> TRUE, warning |-> "Schema URL points to localhost"]

(***************************************************************************)
(* C30.  Uncompressed payloads are readable with decompression disabled:   *)
(* on the output of a successful injection that did not compress the       *)
(* payload, extract with decompress = false returns success with the       *)
(* envelope; the failure 'Data is compressed but decompress option is      *)
(* false' occurs only when the injector compressed the payload.            *)
(***************************************************************************)
C30_UncompressedReadable ==
  (/\ Extracted
   /\ ~last.options.decompress
   /\ Untouched(last.pdfPath)
   /\ hasStructPDFData(fs[last.pdfPath].doc))
    => /\ ~origin[last.pdfPath].steps.willCompress =>
            /\ last.out.success
            /\ last.out.data = EnvelopeIn(fs[last.pdfPath])
       /\ last.out =
            [success |-> FALSE,
             errors |-> << <<"Failed to parse StructPDF data",
                             "Data is compressed but decompress option is false">> >>]
            => origin[last.pdfPath].steps.willCompress

\* an injection that left the payload uncompressed is refused as compressed
C30_Witness ==
  /\ Extracted
  /\ ~last.options.decompress
  /\ Untouched(last.pdfPath)
  /\ hasStructPDFData(fs[last.pdfPath].doc)
  /\ ~origin[last.pdfPath].steps.willCompress
  /\ Get(Get(EnvelopeIn(fs[last.pdfPath]), "metadata"), "compressed") = JBool(FALSE)
  /\ isZlib(StoredEntry(fs[last.pdfPath]))
  /\ last.out =
       [success |-> FALSE,
        errors |-> << <<"Failed to parse StructPDF data",
                        "Data is compressed but decompress option is false">> >>]
====
